---- MODULE Spec2Model ----
(***************************************************************************)
(* A model of the auth package of github.com/albeebe/service:              *)
(*   - the access-token cache, the singleflight refresh coordinator and    *)
(*     the authenticated transport (pkg/auth/auth.go, AuthClient);         *)
(*   - the lifecycle scheduler started by Auth.Start;                      *)
(*   - the key cache, awaitKey, validateJWT and Authenticate.              *)
(* Time is a discrete clock `now`; one unit is one second.                 *)
(***************************************************************************)
EXTENDS Integers, Sequences, FiniteSets, TLC

VARIABLES
    now,                    \* time.Now(), in seconds
    ctxDone,                \* a.ctx has been cancelled
    \* ---- Auth fields (unnamed/part_007 lines 35-48)
    accessToken,            \* a.accessToken
    nextAccessTokenRefresh, \* a.nextAccessTokenRefresh (NilTime when nil)
    tokenRefresher,         \* a.tokenRefresher: the singleflight call in flight
    keys,                   \* a.keys: kid -> Key
    nextKeyRefresh,         \* a.nextKeyRefresh (ZeroTime until the first refresh)
    errorChan,              \* a.errorChan: [id, closed, sending, closes]
    refreshKeysTicker,      \* a.refreshKeysTicker: "nil", "running" or "stopped"
    tick,                   \* ticks buffered in the two tickers' channels
    started,                \* a.start (sync.Once) has run
    loopPc,                 \* position of the goroutine launched by Start
    loops,                  \* number of goroutines Start has launched
    \* ---- the AuthProvider (an external collaborator)
    refreshCalls,           \* RefreshAccessToken invocations begun so far
    inFlight,               \* who is inside RefreshAccessToken right now
    writers,                \* who has written a.accessToken so far
    lastReturn,             \* how the provider's latest RefreshAccessToken returned
    keyCalls,               \* RefreshKeys invocations: <<initial, timer-driven>>
    \* ---- a.mux and the calls that take it, one lock operation at a time
    mux,                    \* the sync.RWMutex: [writer, pending, readers]
    kproc,                  \* positions of a refreshKeys and of the awaitKey calls
    \* ---- outbound requests through AuthClient.RoundTrip
    rt,                     \* per request: position, outcome, Authorization header
    gor,                    \* per request: the goroutine of getAccessTokenWithTimeout (line 259)
    \* ---- callers of Start, and Service.startAuthService
    startRet,               \* per Start call: the channel it returned
    consumer,               \* startAuthService: [pc, logged]
    \* ---- a call of Auth.Authenticate
    authn,                  \* its position, its input and what it returned
    \* ---- the Service (main.go)
    svc                     \* [ep: a request to an endpoint that requires authentication]

tokVars == << accessToken, nextAccessTokenRefresh, tokenRefresher, refreshCalls,
              inFlight, writers, lastReturn >>
reqVars == << rt, gor >>
keyVars == << keys, nextKeyRefresh, keyCalls, mux, kproc >>
loopVars == << started, loopPc, loops, errorChan, refreshKeysTicker, startRet, consumer >>
vars == << now, ctxDone, tick, tokVars, reqVars, keyVars, loopVars, authn, svc >>

\* ------------------------------------------------------------------ bounds
NumCallers == 2     \* concurrent outbound requests
MaxTime == 2        \* the clock of the access-token runs stops here
MaxKeyCalls == 2    \* timer-driven RefreshKeys invocations the provider will serve
NumStarts == 2       \* calls of Start
MaxAuthTime == 6    \* the clock of the authentication runs stops here
MaxSignals == 2     \* terminate signals sent to the process
MaxTeardownTime == 7 \* seconds a call of teardown is followed for
MaxShutdowns == 2   \* calls of shutdown from outside the goroutine
NumReaders == 2     \* concurrent awaitKey calls that contend for a.mux

Callers == 1..NumCallers
Starters == 1..NumStarts
TTLs == {2}         \* lifetimes the provider gives an access token
Leads == {0}        \* how far ahead the provider sets the next refresh

NilTime == -2       \* a nil *time.Time
ZeroTime == -1      \* time.Time{}: before every instant of the clock
NilToken == [nil |-> TRUE, Token |-> 0, Expires |-> 0]
NoCall == [active |-> FALSE, leader |-> 0, dups |-> {}]
NoResult == [full |-> FALSE, err |-> FALSE, token |-> [nil |-> TRUE, Token |-> 0]]
NotSent == [set |-> FALSE, bearer |-> 0]
\* The Authorization header a request carries when it is handed to RoundTrip:
\* request 1 arrives with a value already set (-1, no token the provider
\* issues), the others with none.
PriorHeader(c) == IF c = 1 THEN [set |-> TRUE, bearer |-> -1] ELSE NotSent
Scheduler == 0      \* the goroutine launched by Start, among the callers of the provider

\* ------------------------------------------------------ access-token cache

\* getAccessToken: whether the cached token exists and has not expired.
getAccessTokenOk == ~accessToken.nil /\ now < accessToken.Expires

\* What provider.RefreshAccessToken may return to its k-th invocation at time t.
\* Token 0 is the empty string; successful calls return distinct tokens.
ProviderTokenResponses(k, t) ==
    { [err |-> TRUE, token |-> NilToken, next |-> 0] }
    \cup { [err |-> FALSE, token |-> NilToken, next |-> t] }
    \cup { [err |-> FALSE,
            token |-> [nil |-> FALSE, Token |-> s, Expires |-> t + ttl],
            next |-> t + d] : s \in {0, k}, ttl \in TTLs, d \in Leads }

\* refreshAccessToken after the provider returned resp: the (token, error) it
\* returns. Of a token a request reads only whether it is nil and its string.
Returned(tok) == [nil |-> tok.nil, Token |-> tok.Token]
RefreshResult(resp) ==
    IF resp.err THEN [full |-> TRUE, err |-> TRUE, token |-> Returned(NilToken)]
    ELSE [full |-> TRUE, err |-> FALSE, token |-> Returned(resp.token)]

\* refreshAccessToken after the provider returned resp: the write to the cache.
refreshAccessTokenStore(resp, who) ==
    IF resp.err
    THEN UNCHANGED << accessToken, nextAccessTokenRefresh, writers >>
    ELSE /\ accessToken' = resp.token
         /\ nextAccessTokenRefresh' = resp.next
         /\ writers' = writers \cup {who}

\* The provider begins serving a RefreshAccessToken invocation made by who.
ProviderBegin(who) ==
    /\ refreshCalls' = refreshCalls + 1
    /\ inFlight' = inFlight \cup {who}
    /\ UNCHANGED lastReturn

\* The provider returns from who's invocation.
ProviderEnd(who, resp) ==
    /\ who \in inFlight
    /\ inFlight' = inFlight \ {who}
    /\ lastReturn' = IF resp.err THEN "err" ELSE "nil"

\* RefreshAccessToken invocations that have returned.
callsDone == refreshCalls - Cardinality(inFlight)

\* ------------------------------------------- AuthClient.RoundTrip (auth.go)

\* RoundTrip without the check of lines 231-233: a nil or empty token is put
\* into the header and the request is handed to the transport.
RoundTripWithUnchecked(r, res, timedOut) ==
    IF timedOut \/ res.err
    THEN [r EXCEPT !.pc = "done", !.got = res,
                   !.outcome = IF timedOut THEN "timeout" ELSE "error"]
    ELSE [r EXCEPT !.pc = "done", !.got = res, !.outcome = "sent",
                   !.header = [set |-> TRUE, bearer |-> res.token.Token],
                   !.sentWith = [set |-> TRUE, bearer |-> res.token.Token]]

\* RoundTrip once getAccessTokenWithTimeout has returned (token, err):
\* lines 228-242. The transport is called only on the last line, with the
\* header the request carries then.
RoundTripWith(r, res, timedOut) ==
    IF timedOut \/ res.err
    THEN [r EXCEPT !.pc = "done", !.got = res,
                   !.outcome = IF timedOut THEN "timeout" ELSE "error"]
    ELSE IF res.token.nil \/ res.token.Token = 0
    THEN [r EXCEPT !.pc = "done", !.got = res, !.outcome = "empty"]
    ELSE [r EXCEPT !.pc = "done", !.got = res, !.outcome = "sent",
                   !.header = [set |-> TRUE, bearer |-> res.token.Token],
                   !.sentWith = [set |-> TRUE, bearer |-> res.token.Token]]

\* getAccessTokenWithTimeout without the early return of line 252: a request
\* that finds a valid token launches the goroutine all the same.
RoundTripCachedRefreshes(c) ==
    /\ rt[c].pc = "idle"
    /\ getAccessTokenOk
    /\ rt' = [rt EXCEPT ![c].pc = "wait", ![c].missedAfter = refreshCalls - Cardinality(inFlight)]
    /\ gor' = [gor EXCEPT ![c] = [pc |-> "spawned", call |-> 0, led |-> FALSE]]
    /\ UNCHANGED tokVars

\* The fast path of getAccessTokenWithTimeout (lines 250-253): a valid cached
\* token is returned at once and RoundTrip goes on with it.
RoundTripCached(c) ==
    /\ rt[c].pc = "idle"
    /\ getAccessTokenOk
    /\ rt' = [rt EXCEPT ![c] =
                RoundTripWith(@, [full |-> TRUE, err |-> FALSE, token |-> Returned(accessToken)], FALSE)]
    /\ UNCHANGED << gor, tokVars >>

\* The slow path (lines 255-271): the channels are made and the goroutine is
\* launched; the request then waits in the select of line 274.
RoundTripMiss(c) ==
    /\ rt[c].pc = "idle"
    /\ ~getAccessTokenOk
    /\ rt' = [rt EXCEPT ![c].pc = "wait", ![c].missedAfter = callsDone,
                         ![c].cache = IF accessToken.nil THEN "nil" ELSE "expired"]
    /\ gor' = [gor EXCEPT ![c] = [pc |-> "spawned", call |-> 0, led |-> FALSE]]
    /\ UNCHANGED tokVars

\* singleflight.Do, entered by the goroutine of request c (line 261): with no
\* call in flight c becomes the leader and invokes refreshAccessToken, which
\* calls the provider; otherwise c joins the call in flight.
DoLead(c) ==
    /\ gor[c].pc = "spawned"
    /\ ~tokenRefresher.active
    /\ ProviderBegin(c)
    /\ tokenRefresher' = [active |-> TRUE, leader |-> c, dups |-> {}]
    /\ gor' = [gor EXCEPT ![c] = [pc |-> "do", call |-> refreshCalls + 1, led |-> TRUE]]
    /\ UNCHANGED << accessToken, nextAccessTokenRefresh, writers, rt >>

DoJoin(c) ==
    /\ gor[c].pc = "spawned"
    /\ tokenRefresher.active
    /\ tokenRefresher' = [tokenRefresher EXCEPT !.dups = @ \cup {c}]
    /\ gor' = [gor EXCEPT ![c] = [pc |-> "do", call |-> gor[tokenRefresher.leader].call,
                                 led |-> FALSE]]
    /\ UNCHANGED << accessToken, nextAccessTokenRefresh, refreshCalls, inFlight,
                    writers, lastReturn, rt >>

\* The leader's provider call returns resp: refreshAccessToken stores the
\* token and Do hands the one result to the leader and to every joined
\* caller. Each goroutine sends it on its own buffered channel (lines
\* 266-270) and exits; the select of line 274 of a request that still waits
\* takes it, and the request goes on in RoundTrip.
DoReturn(c, resp) ==
    /\ tokenRefresher.active /\ tokenRefresher.leader = c
    /\ refreshAccessTokenStore(resp, "flight")
    /\ LET members == {c} \cup tokenRefresher.dups
       IN /\ gor' = [x \in Callers |-> IF x \in members
                                        THEN [gor[x] EXCEPT !.pc = "exit"] ELSE gor[x]]
          /\ rt' = [x \in Callers |-> IF x \in members /\ rt[x].pc = "wait"
                                       THEN RoundTripWith(rt[x], RefreshResult(resp), FALSE)
                                       ELSE rt[x]]
    /\ ProviderEnd(c, resp)
    /\ tokenRefresher' = NoCall
    /\ UNCHANGED refreshCalls

\* A timeout that gives up the call in flight: the leader's call is dropped
\* and Do forgets it, so the requests that had joined wait for nothing.
RoundTripTimeoutCancels(c) ==
    /\ rt[c].pc = "wait"
    /\ rt' = [rt EXCEPT ![c] = RoundTripWith(@, NoResult, TRUE)]
    /\ IF gor[c].pc = "do"
       THEN /\ tokenRefresher' = NoCall
            /\ inFlight' = inFlight \ {tokenRefresher.leader}
            /\ gor' = [x \in Callers |-> IF gor[x].pc = "do"
                                           THEN [gor[x] EXCEPT !.pc = "exit"] ELSE gor[x]]
            /\ UNCHANGED << accessToken, nextAccessTokenRefresh, refreshCalls, writers,
                            lastReturn >>
       ELSE UNCHANGED << gor, tokVars >>

\* The select of lines 274-281: time.After(timeout) fires before a result
\* has arrived. Nothing but the waiting request is touched: the goroutine and
\* the call it leads or has joined go on.
RoundTripTimeout(c) ==
    /\ rt[c].pc = "wait"
    /\ rt' = [rt EXCEPT ![c] = RoundTripWith(@, NoResult, TRUE)]
    /\ UNCHANGED << gor, tokVars >>

\* ----------------------------------------------------------- the key cache

NewKey(kid, iat, exp, alg, pem) ==
    [Kid |-> kid, Iat |-> iat, Exp |-> exp, Alg |-> alg, Pem |-> pem]

\* Key.Validate (structs.go lines 67-84): TRUE when it returns nil.
Validate(k) ==
    /\ k.Kid # ""
    /\ k.Iat # 0
    /\ k.Exp # 0
    /\ k.Alg # ""
    /\ k.Pem # ""

\* Batches the provider's RefreshKeys may return. "pemA" and "pemB" are PEM
\* encodings of two RSA public keys, "pemEC" encodes a key that is not RSA.
KeyBatches ==
    { << >>,
      << NewKey("k1", 1, 9, "RS256", "pemA") >>,
      << NewKey("k1", 1, 9, "rs256", "pemA"), NewKey("k2", 1, 9, "RS256", "pemB") >>,
      << NewKey("k1", 1, 9, "HS256", "pemA") >>,
      << NewKey("k1", 1, 9, "RS256", "pemEC") >>,
      << NewKey("k2", 1, 9, "RS256", "pemB"), NewKey("k2", 1, 9, "RS256", "pemA") >>,
      << NewKey("k1", 1, 9, "RS256", "pemA"), NewKey("", 1, 9, "RS256", "pemB") >>,
      << NewKey("k1", 0, 9, "RS256", "pemA") >>,
      << NewKey("k1", 1, 0, "RS256", "pemA") >>,
      << NewKey("k2", 1, 9, "", "pemA") >>,
      << NewKey("k2", 1, 9, "RS256", "") >> }
KeyLeads == {0, 2}  \* how far ahead the provider sets the next key refresh

ProviderKeyResponses(t) ==
    { [err |-> TRUE, keys |-> << >>, next |-> 0] }
    \cup { [err |-> FALSE, keys |-> b, next |-> t + d] : b \in KeyBatches, d \in KeyLeads }

\* A map that files the keys of the batch under their alg instead of their kid.
KeyMapByAlg(batch) ==
    [ alg \in { batch[i].Alg : i \in DOMAIN batch } |->
        batch[CHOOSE i \in DOMAIN batch : batch[i].Alg = alg] ]

\* The map built by lines 95-101 of internal.go: a later key of the batch
\* replaces an earlier one with the same kid.
KeyMap(batch) ==
    [ kid \in { batch[i].Kid : i \in DOMAIN batch } |->
        LET last == CHOOSE i \in DOMAIN batch :
                       /\ batch[i].Kid = kid
                       /\ \A j \in DOMAIN batch : batch[j].Kid = kid => j <= i
        IN batch[last] ]

\* refreshKeys (internal.go lines 85-110) fails on resp.
refreshKeysFails(resp) ==
    resp.err \/ \E i \in DOMAIN resp.keys : ~Validate(resp.keys[i])

\* A refreshKeys that leaves out the keys that fail Validate and installs the
\* others, while it still returns the error.
refreshKeysStoreValidOnes(resp) ==
    IF resp.err
    THEN UNCHANGED << keys, nextKeyRefresh >>
    ELSE /\ nextKeyRefresh' = IF refreshKeysFails(resp) THEN nextKeyRefresh ELSE resp.next
         /\ keys' = KeyMap(SelectSeq(resp.keys, Validate))

\* A refreshKeys that takes over the provider's next refresh time before it
\* has validated the keys.
refreshKeysStoreNextFirst(resp) ==
    IF resp.err
    THEN UNCHANGED << keys, nextKeyRefresh >>
    ELSE /\ nextKeyRefresh' = resp.next
         /\ keys' = IF refreshKeysFails(resp) THEN keys ELSE KeyMap(resp.keys)

\* refreshKeys (internal.go lines 103-107) once the provider returned resp.
refreshKeysStore(resp) ==
    IF refreshKeysFails(resp)
    THEN UNCHANGED << keys, nextKeyRefresh >>
    ELSE /\ nextKeyRefresh' = resp.next
         /\ keys' = KeyMap(resp.keys)

\* keyWithID (internal.go lines 76-81).
keyWithIDOk(id) == id \in DOMAIN keys

\* ------------------------------------------------------------- strings

\* Header values are sequences of one-character strings; a compact JWT inside
\* a header is one element, the name of a token of Tokens.
Chars ==
    [ s \in {"", "RS256", "rs256", "HS256", "PS256", "XX999", "none"} |->
        CASE s = "" -> << >>
          [] s = "RS256" -> << "R", "S", "2", "5", "6" >>
          [] s = "rs256" -> << "r", "s", "2", "5", "6" >>
          [] s = "HS256" -> << "H", "S", "2", "5", "6" >>
          [] s = "PS256" -> << "P", "S", "2", "5", "6" >>
          [] s = "XX999" -> << "X", "X", "9", "9", "9" >>
          [] s = "none" -> << "n", "o", "n", "e" >> ]

\* strings.ToLower, on the letters the inputs use.
ToLowerCh(ch) ==
    CASE ch = "A" -> "a" [] ch = "B" -> "b" [] ch = "C" -> "c" [] ch = "E" -> "e"
      [] ch = "H" -> "h" [] ch = "I" -> "i" [] ch = "P" -> "p" [] ch = "R" -> "r"
      [] ch = "S" -> "s" [] ch = "X" -> "x"
      [] OTHER -> ch
ToLower(s) == [ i \in DOMAIN s |-> ToLowerCh(s[i]) ]

\* strings.HasPrefix.
HasPrefix(s, prefix) == Len(s) >= Len(prefix) /\ SubSeq(s, 1, Len(prefix)) = prefix

\* strings.TrimSpace.
IsSpace(ch) == ch \in {" ", "\t"}
RECURSIVE TrimLeft(_)
TrimLeft(s) == IF s # << >> /\ IsSpace(Head(s)) THEN TrimLeft(Tail(s)) ELSE s
RECURSIVE TrimRight(_)
TrimRight(s) ==
    IF s # << >> /\ IsSpace(s[Len(s)]) THEN TrimRight(SubSeq(s, 1, Len(s) - 1)) ELSE s
TrimSpace(s) == TrimRight(TrimLeft(s))

\* -------------------------------------------------------------- the tokens

\* A header parameter of a token: absent, a JSON value that is no string, or
\* a string.
Absent == [kind |-> "absent", val |-> ""]
NonString == [kind |-> "number", val |-> ""]
Str(v) == [kind |-> "string", val |-> v]

\* A time claim of a token.
NoClaim == [has |-> FALSE, at |-> 0]
Claim(t) == [has |-> TRUE, at |-> t]

\* A signature: made with the private key that belongs to the public key pem,
\* by the signing method alg. Junk is a signature nobody made.
Signed(pem, alg) == [pem |-> pem, alg |-> alg]
Junk == Signed("", "")

NewToken(alg, kid, sig, exp, nbf) ==
    [form |-> "jwt", alg |-> alg, kid |-> kid, sig |-> sig, exp |-> exp, nbf |-> nbf]

Late == MaxAuthTime + 1   \* a time the clock of the model does not reach

\* The tokens presented: "T0" is well formed and signed by the key of "pemA";
\* each of the others differs from it in the way its line says. "X" is text
\* that is no JWT.
Tokens ==
    [ n \in {"T0", "T1", "T2", "T3", "T4", "T5", "T6", "T7", "T8", "T9", "T10", "T11",
             "T12", "T13", "T14", "T15", "T16", "T17", "T18", "T19", "T20", "X"} |->
        CASE n = "T0" -> NewToken(Str("RS256"), Str("k1"), Signed("pemA", "RS256"), Claim(Late), NoClaim)
          [] n = "T1" -> NewToken(Str("rs256"), Str("k1"), Signed("pemA", "RS256"), Claim(Late), NoClaim)
          [] n = "T2" -> NewToken(Str("HS256"), Str("k1"), Signed("pemA", "HS256"), Claim(Late), NoClaim)
          [] n = "T3" -> NewToken(Str("XX999"), Str("k1"), Junk, Claim(Late), NoClaim)
          [] n = "T4" -> NewToken(Absent, Str("k1"), Signed("pemA", "RS256"), Claim(Late), NoClaim)
          [] n = "T5" -> NewToken(NonString, Str("k1"), Signed("pemA", "RS256"), Claim(Late), NoClaim)
          [] n = "T6" -> NewToken(Str(""), Str("k1"), Signed("pemA", "RS256"), Claim(Late), NoClaim)
          [] n = "T7" -> NewToken(Str("RS256"), Absent, Signed("pemA", "RS256"), Claim(Late), NoClaim)
          [] n = "T8" -> NewToken(Str("RS256"), NonString, Signed("pemA", "RS256"), Claim(Late), NoClaim)
          [] n = "T9" -> NewToken(Str("RS256"), Str(""), Signed("pemA", "RS256"), Claim(Late), NoClaim)
          [] n = "T10" -> NewToken(Absent, Absent, Junk, Claim(Late), NoClaim)
          [] n = "T11" -> NewToken(Str("RS256"), Str("k9"), Signed("pemA", "RS256"), Claim(Late), NoClaim)
          [] n = "T12" -> NewToken(Str("RS256"), Str("k2"), Signed("pemB", "RS256"), NoClaim, NoClaim)
          [] n = "T13" -> NewToken(Str("RS256"), Str("k1"), Signed("pemB", "RS256"), Claim(Late), NoClaim)
          [] n = "T14" -> NewToken(Str("RS256"), Str("k1"), Junk, Claim(Late), NoClaim)
          [] n = "T15" -> NewToken(Str("RS256"), Str("k1"), Signed("pemA", "RS256"), Claim(1), NoClaim)
          [] n = "T16" -> NewToken(Str("RS256"), Str("k1"), Signed("pemA", "RS256"), Claim(Late), Claim(3))
          [] n = "T17" -> NewToken(Str("RS256"), Str("k1"), Signed("pemA", "RS256"), Claim(1), Claim(3))
          [] n = "T18" -> NewToken(Str("PS256"), Str("k1"), Signed("pemA", "PS256"), Claim(Late), NoClaim)
          [] n = "T19" -> NewToken(Str("none"), Str("k1"), Junk, Claim(Late), NoClaim)
          [] n = "T20" -> NewToken(Str("HS256"), Str("k9"), Junk, Claim(Late), NoClaim)
          [] n = "X" -> [form |-> "garbage", alg |-> Absent, kid |-> Absent, sig |-> Junk,
                         exp |-> NoClaim, nbf |-> NoClaim] ]
TokenNames == DOMAIN Tokens

\* ------------------------------------------- jwt.Parse (golang-jwt/jwt v5)

\* The signing methods the library registers; GetSigningMethod looks the alg
\* header up as it is written.
SigningMethods ==
    {"HS256", "HS384", "HS512", "RS256", "RS384", "RS512", "PS256", "PS384", "PS512",
     "ES256", "ES384", "ES512", "EdDSA", "none"}
RSAMethods == {"RS256", "RS384", "RS512", "PS256", "PS384", "PS512"}

\* An error is the set of the values errors.Is finds in it; {} is nil.
\* Parser.ParseUnverified: the segments and the JSON are decoded, then the
\* signing method named by the alg header is looked up.
ParseUnverified(tok) ==
    IF tok.form # "jwt" THEN {"ErrTokenMalformed"}
    ELSE IF tok.alg.kind # "string" \/ tok.alg.val \notin SigningMethods
    THEN {"ErrTokenUnverifiable"}
    ELSE {}

\* The key function of validateJWT up to the key lookup (internal.go lines
\* 143-151); jwt.Parse wraps what it returns in ErrTokenUnverifiable.
KeyfuncHeaders(tok) ==
    IF tok.alg.kind # "string" \/ tok.alg.val = ""
    THEN {"ErrTokenUnverifiable", "errorAlgMissing"}
    ELSE IF tok.kid.kind # "string" \/ tok.kid.val = ""
    THEN {"ErrTokenUnverifiable", "errorKidMissing"}
    ELSE {}

\* jwt.ParseRSAPublicKeyFromPEM returns a key.
ParseRSAPublicKeyFromPEMOk(pem) == pem \in {"pemA", "pemB"}

\* The comparison of line 160 with strings.EqualFold's meaning dropped: the
\* two algorithm names are compared as they are written.
AlgDiffersExact(keyAlg, alg) == Chars[keyAlg] # Chars[alg]

\* Line 160: strings.ToLower(key.Alg) != strings.ToLower(alg).
AlgDiffers(keyAlg, alg) == ToLower(Chars[keyAlg]) # ToLower(Chars[alg])

\* The key function with a failure of jwt.ParseRSAPublicKeyFromPEM handed on
\* as the error of a wrong algorithm, which validateJWT turns into a reason.
KeyfuncKeyPemAsReason(tok, key) ==
    IF AlgDiffers(key.Alg, tok.alg.val) \/ ~ParseRSAPublicKeyFromPEMOk(key.Pem)
    THEN {"ErrTokenUnverifiable", "errorAlgInvalid"}
    ELSE {}

\* The key function once awaitKey has returned key (lines 159-171).
KeyfuncKey(tok, key) ==
    IF AlgDiffers(key.Alg, tok.alg.val)
    THEN {"ErrTokenUnverifiable", "errorAlgInvalid"}
    ELSE IF ~ParseRSAPublicKeyFromPEMOk(key.Pem)
    THEN {"ErrTokenUnverifiable", "ErrKeyMustBePEMEncoded"}
    ELSE {}

\* token.Method.Verify with the RSA public key of key.
Verify(tok, key) ==
    /\ tok.alg.val \in RSAMethods
    /\ tok.sig = Signed(key.Pem, tok.alg.val)

\* Validator.Validate at time t: exp and nbf are checked when present.
ValidateClaims(tok, t) ==
    LET expired == IF tok.exp.has /\ ~(t < tok.exp.at) THEN {"ErrTokenExpired"} ELSE {}
        early == IF tok.nbf.has /\ t < tok.nbf.at THEN {"ErrTokenNotValidYet"} ELSE {}
    IN IF expired \cup early = {} THEN {}
       ELSE {"ErrTokenInvalidClaims"} \cup expired \cup early

\* jwt.Parse after the key function returned key: the signature is verified,
\* then the claims are validated.
VerifyAndValidate(tok, key, t) ==
    IF ~Verify(tok, key) THEN {"ErrTokenSignatureInvalid"} ELSE ValidateClaims(tok, t)

\* validateJWT's handling of the error of jwt.Parse (internal.go lines
\* 175-205): (isValid, reason, err).
ValidateResult(isValid, reason, err) == [isValid |-> isValid, reason |-> reason, err |-> err]
validateJWTReturn(errs) ==
    CASE errs = {} -> ValidateResult(TRUE, "", "nil")
      [] "ErrTokenExpired" \in errs -> ValidateResult(FALSE, "token is expired", "nil")
      [] "ErrTokenMalformed" \in errs -> ValidateResult(FALSE, "token is malformed", "nil")
      [] "ErrTokenNotValidYet" \in errs -> ValidateResult(FALSE, "token is not valid yet", "nil")
      [] "ErrTokenSignatureInvalid" \in errs ->
            ValidateResult(FALSE, "token signature is invalid", "nil")
      [] "ErrTokenUsedBeforeIssued" \in errs ->
            ValidateResult(FALSE, "token used before being issued", "nil")
      [] "errorAlgInvalid" \in errs ->
            ValidateResult(FALSE, "value for 'alg' header is invalid", "nil")
      [] "errorAlgMissing" \in errs ->
            ValidateResult(FALSE, "token header is missing an 'alg' value", "nil")
      [] "errorKidMissing" \in errs ->
            ValidateResult(FALSE, "token header is missing a 'kid' value", "nil")
      [] "errorKeyNotFound" \in errs -> ValidateResult(FALSE, "key not found", "nil")
      [] OTHER -> ValidateResult(FALSE, "", "jwt.Parse error")

\* ------------------------------------ Auth.Authenticate (auth.go 106-133)

maxWaitDuration == 5

\* The requests handed to Authenticate: nil, or a request with this
\* Authorization header (<< >>: the header is absent).
Bearer == << "b", "e", "a", "r", "e", "r", " " >>
Headers ==
    { << >>,
      << "B", "e", "a", "r", "e", "r" >>,
      << "B", "e", "a", "r", "e", "r", " " >>,
      << "b", "e", "a", "r", "e", "r", " ", " ", "\t" >>,
      << "B", "a", "s", "i", "c", " ", "T0" >>,
      << "B", "e", "a", "r", "e", "r", "T0" >>,
      << " ", "B", "e", "a", "r", "e", "r", " ", "T0" >>,
      << "T0" >>,
      << "b", "e", "a", "r", "e", "r", " ", "T0" >>,
      << "B", "E", "A", "R", "E", "R", " ", " ", "T0", " " >>,
      << "B", "e", "a", "r", "e", "r", " ", "T0", " ", "T0" >> }
    \cup { << "B", "e", "a", "r", "e", "r", " ", n >> : n \in TokenNames }
Requests ==
    { [nil |-> TRUE, header |-> << >>] } \cup { [nil |-> FALSE, header |-> h] : h \in Headers }

\* The token a text handed to validateJWT decodes to.
Decode(text) ==
    IF Len(text) = 1 /\ text[1] \in TokenNames THEN Tokens[text[1]] ELSE Tokens["X"]

AuthResult(authenticated, reason, err) ==
    [authenticated |-> authenticated, reason |-> reason, err |-> err]
NoValidateResult == ValidateResult(FALSE, "", "")
NotCalled ==
    [pc |-> "idle", req |-> [nil |-> TRUE, header |-> << >>], text |-> << >>,
     validated |-> FALSE, awaited |-> FALSE, verified |-> FALSE, timeout |-> 0,
     ticked |-> 0, due |-> FALSE, at |-> 0, vres |-> NoValidateResult, res |-> AuthResult(FALSE, "", "")]

\* Authenticate returns without having called validateJWT.
Rejected(a, reason, err) ==
    [a EXCEPT !.pc = "done", !.at = now, !.timeout = 0, !.ticked = 0, !.due = FALSE,
              !.res = AuthResult(FALSE, reason, err)]

\* validateJWT returns on the error errs of jwt.Parse, and Authenticate
\* returns what it makes of that (lines 127-132).
Validated(a, errs) ==
    LET v == validateJWTReturn(errs)
    IN [a EXCEPT !.pc = "done", !.at = now, !.timeout = 0, !.ticked = 0, !.due = FALSE, !.vres = v,
                 !.res = IF v.err # "nil" THEN AuthResult(FALSE, "", "failed to validate jwt")
                         ELSE AuthResult(v.isValid, v.reason, "nil")]

\* Authenticate without the check of lines 121-123: an empty token goes to
\* validateJWT.
AuthenticateNoEmptyCheck(req) ==
    /\ authn.pc = "idle"
    /\ LET a == [authn EXCEPT !.req = req]
           text == TrimSpace(SubSeq(req.header, 8, Len(req.header)))
           called == [a EXCEPT !.text = text, !.validated = TRUE]
           tok == Decode(text)
       IN authn' =
            IF req.nil THEN Rejected(a, "", "request is nil")
            ELSE IF req.header = << >> THEN Rejected(a, "missing authorization header", "nil")
            ELSE IF ~HasPrefix(ToLower(req.header), Bearer)
            THEN Rejected(a, "malformed authorization header", "nil")
            ELSE IF ParseUnverified(tok) # {} THEN Validated(called, ParseUnverified(tok))
            ELSE IF KeyfuncHeaders(tok) # {} THEN Validated(called, KeyfuncHeaders(tok))
            ELSE [called EXCEPT !.pc = "awaitKey", !.awaited = TRUE,
                                !.timeout = now + maxWaitDuration, !.ticked = now,
                                !.due = now > nextKeyRefresh]
    /\ UNCHANGED << svc, now, ctxDone, tick, tokVars, reqVars, keyVars, loopVars >>

\* Authenticate is called with req and runs up to its return or, when the
\* token has both headers, up to the call of awaitKey, which creates the
\* ticker and the timeout (internal.go lines 45-48).
Authenticate(req) ==
    /\ authn.pc = "idle"
    /\ LET a == [authn EXCEPT !.req = req]
           text == TrimSpace(SubSeq(req.header, 8, Len(req.header)))
           called == [a EXCEPT !.text = text, !.validated = TRUE]
           tok == Decode(text)
       IN authn' =
            IF req.nil THEN Rejected(a, "", "request is nil")
            ELSE IF req.header = << >> THEN Rejected(a, "missing authorization header", "nil")
            ELSE IF ~HasPrefix(ToLower(req.header), Bearer)
            THEN Rejected(a, "malformed authorization header", "nil")
            ELSE IF text = << >> THEN Rejected(a, "missing bearer token", "nil")
            ELSE IF ParseUnverified(tok) # {} THEN Validated(called, ParseUnverified(tok))
            ELSE IF KeyfuncHeaders(tok) # {} THEN Validated(called, KeyfuncHeaders(tok))
            ELSE [called EXCEPT !.pc = "awaitKey", !.awaited = TRUE,
                                !.timeout = now + maxWaitDuration, !.ticked = now,
                                !.due = now > nextKeyRefresh]
    /\ UNCHANGED << svc, now, ctxDone, tick, tokVars, reqVars, keyVars, loopVars >>

\* The head of a turn of the loop of awaitKey (internal.go lines 51-55):
\* keyWithID reads the cache under the lock; the key is there and jwt.Parse
\* goes on with it, or awaitKey goes on to look at the refresh time.
awaitKey ==
    /\ authn.pc = "awaitKey"
    /\ LET tok == Decode(authn.text)
           kid == tok.kid.val
       IN authn' =
            IF keyWithIDOk(kid)
            THEN IF KeyfuncKey(tok, keys[kid]) # {}
                 THEN Validated(authn, KeyfuncKey(tok, keys[kid]))
                 ELSE Validated([authn EXCEPT !.verified = TRUE],
                                VerifyAndValidate(tok, keys[kid], now))
            ELSE [authn EXCEPT !.pc = "isRefreshing"]
    /\ UNCHANGED << svc, now, ctxDone, tick, tokVars, reqVars, keyVars, loopVars >>

\* awaitKey without the return of lines 61-63: a miss always waits.
awaitKeyIsRefreshingWaits ==
    /\ authn.pc = "isRefreshing"
    /\ authn' = [authn EXCEPT !.pc = "select"]
    /\ UNCHANGED << svc, now, ctxDone, tick, tokVars, reqVars, keyVars, loopVars >>

\* Lines 58-63: a.nextKeyRefresh is read under the lock, taken anew; no
\* refresh is due and the key is not found, or awaitKey goes to wait in the
\* select.
awaitKeyIsRefreshing ==
    /\ authn.pc = "isRefreshing"
    /\ authn' = IF ~(now > nextKeyRefresh)
                THEN Validated(authn, {"ErrTokenUnverifiable", "errorKeyNotFound"})
                ELSE [authn EXCEPT !.pc = "select"]
    /\ UNCHANGED << svc, now, ctxDone, tick, tokVars, reqVars, keyVars, loopVars >>

\* case <-ticker.C (line 68): a second has passed since the last turn.
awaitKeyTicker ==
    /\ authn.pc = "select"
    /\ now > authn.ticked
    /\ authn' = [authn EXCEPT !.pc = "awaitKey", !.ticked = now]
    /\ UNCHANGED << svc, now, ctxDone, tick, tokVars, reqVars, keyVars, loopVars >>

\* The timeout case without its return: awaitKey looks again.
awaitKeyTimeoutLooksAgain ==
    /\ authn.pc = "select"
    /\ now >= authn.timeout
    /\ authn' = [authn EXCEPT !.pc = "awaitKey"]
    /\ UNCHANGED << svc, now, ctxDone, tick, tokVars, reqVars, keyVars, loopVars >>

\* case <-timeout (lines 69-70): maxWaitDuration has passed.
awaitKeyTimeout ==
    /\ authn.pc = "select"
    /\ now >= authn.timeout
    /\ authn' = Validated(authn, {"ErrTokenUnverifiable", "errorKeyNotFound"})
    /\ UNCHANGED << svc, now, ctxDone, tick, tokVars, reqVars, keyVars, loopVars >>

\* --------- Service.AddAuthenticatedEndpoint, AddServiceEndpoint (main.go)

EndpointKinds == {"authenticated", "service"}

\* What the provider's AuthorizeRequest may return, and what the user's
\* handler may: nil, or a response with its status code.
AuthorizeResults == { [ok |-> ok, err |-> err] : ok \in BOOLEAN, err \in BOOLEAN }
HandlerResponses == { [nil |-> TRUE, StatusCode |-> 0], [nil |-> FALSE, StatusCode |-> 200] }

NoEndpoint ==
    [pc |-> "idle", kind |-> "", status |-> 0, message |-> "", reason |-> "",
     verifyCalled |-> FALSE, authorizeCalled |-> FALSE, handlerCalled |-> FALSE,
     isVerified |-> FALSE, authz |-> [ok |-> FALSE, err |-> FALSE], logged |-> FALSE]

\* sendResponse(w, status, message): the handler is done.
sendResponse(e, status, message) ==
    [e EXCEPT !.pc = "done", !.status = status, !.message = message]

\* The wrapped handler looking at the verdict of Authorize before its error:
\* a provider that returns (true, err) gets the request through.
wrappedAuthorizeVerdictFirst(e, kind, authz, resp) ==
    LET c == [e EXCEPT !.authorizeCalled = TRUE, !.authz = authz]
    IN IF authz.ok
       THEN IF resp.nil
            THEN sendResponse([c EXCEPT !.handlerCalled = TRUE],
                              IF kind = "service" THEN 501 ELSE 500, "internal server error")
            ELSE sendResponse([c EXCEPT !.handlerCalled = TRUE], resp.StatusCode, "")
       ELSE IF authz.err
       THEN sendResponse([c EXCEPT !.logged = TRUE], 500, "internal server error")
       ELSE sendResponse(c, 403, "Forbidden: Missing required permission")

\* The wrapped handler from Authorize on (main.go lines 274-295, 453-474).
wrappedAuthorize(e, kind, authz, resp) ==
    LET c == [e EXCEPT !.authorizeCalled = TRUE, !.authz = authz]
    IN IF authz.err
       THEN sendResponse([c EXCEPT !.logged = TRUE], 500, "internal server error")
       ELSE IF ~authz.ok
       THEN sendResponse(c, 403, "Forbidden: Missing required permission")
       ELSE IF resp.nil
       THEN sendResponse([c EXCEPT !.handlerCalled = TRUE],
                         IF kind = "service" THEN 501 ELSE 500, "internal server error")
       ELSE sendResponse([c EXCEPT !.handlerCalled = TRUE], resp.StatusCode, "")

\* The wrapped handler of an endpoint of this kind once its call of
\* Authenticate has returned (main.go lines 258-295, 431-474); isVerified,
\* authz and resp are what IsServiceRequest, AuthorizeRequest and the user's
\* handler return when they are called.
wrappedHandler(kind, isVerified, authz, resp) ==
    /\ svc.ep.pc = "idle"
    /\ authn.pc = "done" /\ ~authn.req.nil
    /\ LET e == [svc.ep EXCEPT !.kind = kind]
           v == [e EXCEPT !.verifyCalled = TRUE, !.isVerified = isVerified]
       IN svc' = [svc EXCEPT !.ep =
            IF authn.res.err # "nil"
            THEN sendResponse([e EXCEPT !.logged = TRUE], 500, "internal server error")
            ELSE IF ~authn.res.authenticated
            THEN sendResponse([e EXCEPT !.reason = authn.res.reason], 401,
                              IF authn.res.reason # "" THEN "unauthorized: " ELSE "unauthorized")
            ELSE IF kind = "service" /\ ~isVerified
            THEN sendResponse(v, 403, "forbidden: restricted to services")
            ELSE wrappedAuthorize(IF kind = "service" THEN v ELSE e, kind, authz, resp)]
    /\ UNCHANGED << authn, now, ctxDone, tick, tokVars, reqVars, keyVars, loopVars >>

\* --------------------------------------- Service.Run (main.go 118-174)

Callbacks == << "Starting", "Running", "Terminating" >>
\* The State values Run is called with: each callback set or nil.
States == SUBSET {"Starting", "Running", "Terminating"}

\* Run before it is called. calls lists the callbacks in the order they were
\* invoked and termErr what Terminating was given; notified says that
\* signal.Notify relays to the terminate channel, terminate counts what its
\* buffer of one holds, signals the terminate signals the process has been
\* sent since, received those Run has taken from the channel.
NoRun == [pc |-> "idle", state |-> {}, calls |-> << >>, termErr |-> "none", cause |-> "",
          notified |-> FALSE, terminate |-> 0, signals |-> 0, received |-> 0,
          router |-> "idle", teardown |-> "none", teardownErr |-> FALSE, logged |-> FALSE]

\* if state.X != nil { state.X() }
invoke(r, name) == IF name \in r.state THEN [r EXCEPT !.calls = Append(@, name)] ELSE r

\* Lines 118-127: Run is called with state; Starting, then the goroutine of
\* startAuthService is launched.
RunStarting(state) ==
    /\ svc.run.pc = "idle"
    /\ svc' = [svc EXCEPT !.run = [invoke([svc.run EXCEPT !.state = state], "Starting")
                                     EXCEPT !.pc = "notify"]]
    /\ UNCHANGED << authn, now, ctxDone, tick, tokVars, reqVars, keyVars, loopVars >>

\* Lines 130-132: the terminate channel, with a buffer of one, is registered.
RunNotify ==
    /\ svc.run.pc = "notify"
    /\ svc' = [svc EXCEPT !.run.pc = "running", !.run.notified = TRUE]
    /\ UNCHANGED << authn, now, ctxDone, tick, tokVars, reqVars, keyVars, loopVars >>

\* Lines 135-138 and 147: Running, then the select is entered, which calls
\* router.ListenAndServe for the channel of its third case.
RunRunning ==
    /\ svc.run.pc = "running"
    /\ svc' = [svc EXCEPT !.run = [invoke(svc.run, "Running")
                                     EXCEPT !.pc = "select", !.router = "serving"]]
    /\ UNCHANGED << authn, now, ctxDone, tick, tokVars, reqVars, keyVars, loopVars >>

\* The process is sent a terminate signal while Notify is in force: it is
\* put into the channel unless the buffer is full.
Signal ==
    /\ svc.run.notified
    /\ svc.run.signals < MaxSignals
    /\ svc' = [svc EXCEPT !.run.signals = @ + 1, !.run.terminate = 1]
    /\ UNCHANGED << authn, now, ctxDone, tick, tokVars, reqVars, keyVars, loopVars >>

\* server.ListenAndServe returns (internal/router/internal.go 243-249): its
\* error, never nil, waits on the channel of the router.
RouterFails ==
    /\ svc.run.router = "serving"
    /\ svc' = [svc EXCEPT !.run.router = "failed"]
    /\ UNCHANGED << authn, now, ctxDone, tick, tokVars, reqVars, keyVars, loopVars >>

\* Lines 153-162: the context is cancelled and teardown is launched.
beginTeardown(r, cause, err) ==
    [invoke(r, "Terminating") EXCEPT !.pc = "select2", !.cause = cause,
        !.termErr = IF "Terminating" \in r.state THEN err ELSE "none",
        !.teardown = "running"]

\* Lines 139-151: the first select, one action per case.
RunTerminate ==
    /\ svc.run.pc = "select"
    /\ svc.run.terminate = 1
    /\ svc' = [svc EXCEPT !.run = beginTeardown([svc.run EXCEPT !.terminate = 0,
                                                                !.received = @ + 1],
                                                "signal", "nil")]
    /\ ctxDone' = TRUE
    /\ UNCHANGED << authn, now, tick, tokVars, reqVars, keyVars, loopVars >>

RunContextDone ==
    /\ svc.run.pc = "select"
    /\ ctxDone
    /\ svc' = [svc EXCEPT !.run = beginTeardown(svc.run, "context", "nil")]
    /\ ctxDone' = TRUE
    /\ UNCHANGED << authn, now, tick, tokVars, reqVars, keyVars, loopVars >>

RunRouterError ==
    /\ svc.run.pc = "select"
    /\ svc.run.router = "failed"
    /\ svc' = [svc EXCEPT !.run = beginTeardown([svc.run EXCEPT !.router = "received"],
                                                "router", "err")]
    /\ ctxDone' = TRUE
    /\ UNCHANGED << authn, now, tick, tokVars, reqVars, keyVars, loopVars >>

\* Line 161: s.teardown returns err in its goroutine, which then waits in the
\* send on teardownComplete.
teardownReturns(err) ==
    /\ svc.run.teardown = "running"
    /\ svc' = [svc EXCEPT !.run.teardown = "sending", !.run.teardownErr = err]
    /\ UNCHANGED << authn, now, ctxDone, tick, tokVars, reqVars, keyVars, loopVars >>

\* Lines 165-173: the second select; Run returns from either case, and the
\* deferred signal.Stop runs.
RunTeardownComplete ==
    /\ svc.run.pc = "select2"
    /\ svc.run.teardown = "sending"
    /\ svc' = [svc EXCEPT !.run.pc = "returned", !.run.teardown = "done",
                          !.run.logged = svc.run.teardownErr, !.run.notified = FALSE]
    /\ UNCHANGED << authn, now, ctxDone, tick, tokVars, reqVars, keyVars, loopVars >>

RunTerminateAgain ==
    /\ svc.run.pc = "select2"
    /\ svc.run.terminate = 1
    /\ svc' = [svc EXCEPT !.run.pc = "returned", !.run.terminate = 0,
                          !.run.received = @ + 1, !.run.notified = FALSE]
    /\ UNCHANGED << authn, now, ctxDone, tick, tokVars, reqVars, keyVars, loopVars >>

\* ------------------------------------------------- Auth.Start (auth.go 62-100)

\* Start without sync.Once: every call creates tickers and launches a
\* goroutine.
StartOnceAlways ==
    /\ started' = TRUE
    /\ refreshKeysTicker' = "running"
    /\ loops' = loops + 1
    /\ loopPc' = "launched"

\* A Start whose guard opens again once the goroutine has returned.
StartOnceUnlessStopped ==
    IF started /\ loopPc # "stopped"
    THEN UNCHANGED << started, refreshKeysTicker, loops, loopPc >>
    ELSE /\ started' = TRUE
         /\ refreshKeysTicker' = "running"
         /\ loops' = loops + 1
         /\ loopPc' = "launched"

\* a.start.Do(...): the first call creates the tickers and launches the
\* goroutine; every later call does nothing.
StartOnce ==
    IF started
    THEN UNCHANGED << started, refreshKeysTicker, loops, loopPc >>
    ELSE /\ started' = TRUE
         /\ refreshKeysTicker' = "running"
         /\ loops' = loops + 1
         /\ loopPc' = "launched"

\* A call of Start by caller s; it returns a.errorChan (line 99).
Start(s) ==
    /\ startRet[s] = 0
    /\ StartOnce
    /\ startRet' = [startRet EXCEPT ![s] = errorChan.id]
    /\ UNCHANGED << svc, authn, now, ctxDone, tick, tokVars, reqVars, keyVars, errorChan, consumer >>

\* The goroutine's first statement (line 74): refreshKeys calls the provider.
LoopInit ==
    /\ loopPc = "launched"
    /\ loopPc' = "initCall"
    /\ keyCalls' = [keyCalls EXCEPT ![1] = @ + 1]
    /\ UNCHANGED << svc, authn, now, ctxDone, tick, tokVars, reqVars, keys, nextKeyRefresh,
                    mux, kproc,
                    started, loops, errorChan, refreshKeysTicker, startRet, consumer >>

\* The provider's RefreshKeys returns resp to the refreshKeys of line 74 or 87;
\* an error is sent on the unbuffered a.errorChan (lines 75, 88).
LoopKeysReturn(resp) ==
    /\ loopPc \in {"initCall", "keyCall"}
    /\ refreshKeysStore(resp)
    /\ IF refreshKeysFails(resp)
       THEN /\ loopPc' = "send"
            /\ errorChan' = [errorChan EXCEPT !.sending = TRUE]
       ELSE /\ loopPc' = "loop"
            /\ UNCHANGED errorChan
    /\ UNCHANGED << svc, authn, now, ctxDone, tick, tokVars, reqVars, keyCalls, mux, kproc,
                    started, loops, refreshKeysTicker, startRet, consumer >>

\* Line 79-83: a tick of the access-token ticker.
LoopAccessTokenTick ==
    /\ loopPc = "loop"
    /\ tick.token
    /\ tick' = [tick EXCEPT !.token = FALSE]
    /\ IF nextAccessTokenRefresh # NilTime /\ nextAccessTokenRefresh < now
       THEN /\ ProviderBegin(Scheduler)
            /\ loopPc' = "tokenCall"
       ELSE UNCHANGED << refreshCalls, inFlight, lastReturn, loopPc >>
    /\ UNCHANGED << svc, authn, now, ctxDone, accessToken, nextAccessTokenRefresh, tokenRefresher,
                    writers, reqVars, keyVars, started, loops, errorChan,
                    refreshKeysTicker, startRet, consumer >>

\* A scheduler that reacts to a failed refresh by dropping the cached token.
LoopAccessTokenReturnInvalidates(resp) ==
    /\ loopPc = "tokenCall"
    /\ IF resp.err
       THEN /\ accessToken' = NilToken
            /\ UNCHANGED << nextAccessTokenRefresh, writers >>
       ELSE refreshAccessTokenStore(resp, "loop")
    /\ ProviderEnd(Scheduler, resp)
    /\ loopPc' = "loop"
    /\ UNCHANGED << svc, authn, now, ctxDone, tick, tokenRefresher, refreshCalls, reqVars, keyVars,
                    started, loops, errorChan, refreshKeysTicker, startRet, consumer >>

\* Line 82: the provider returns resp to the goroutine's refreshAccessToken;
\* what refreshAccessToken returns is dropped.
LoopAccessTokenReturn(resp) ==
    /\ loopPc = "tokenCall"
    /\ refreshAccessTokenStore(resp, "loop")
    /\ ProviderEnd(Scheduler, resp)
    /\ loopPc' = "loop"
    /\ UNCHANGED << svc, authn, now, ctxDone, tick, tokenRefresher, refreshCalls, reqVars, keyVars,
                    started, loops, errorChan, refreshKeysTicker, startRet, consumer >>

\* A key tick that refreshes the keys whether they are due or not.
LoopKeysTickAlways ==
    /\ loopPc = "loop"
    /\ tick.key
    /\ tick' = [tick EXCEPT !.key = FALSE]
    /\ keyCalls[2] < MaxKeyCalls
    /\ keyCalls' = [keyCalls EXCEPT ![2] = @ + 1]
    /\ loopPc' = "keyCall"
    /\ UNCHANGED << svc, authn, now, ctxDone, tokVars, reqVars, keys, nextKeyRefresh,
                    mux, kproc,
                    started, loops, errorChan, refreshKeysTicker, startRet, consumer >>

\* Lines 84-90: a tick of the key ticker.
LoopKeysTick ==
    /\ loopPc = "loop"
    /\ tick.key
    /\ tick' = [tick EXCEPT !.key = FALSE]
    /\ IF now > nextKeyRefresh
       THEN /\ keyCalls[2] < MaxKeyCalls
            /\ keyCalls' = [keyCalls EXCEPT ![2] = @ + 1]
            /\ loopPc' = "keyCall"
       ELSE UNCHANGED << keyCalls, loopPc >>
    /\ UNCHANGED << svc, authn, now, ctxDone, tokVars, reqVars, keys, nextKeyRefresh,
                    mux, kproc,
                    started, loops, errorChan, refreshKeysTicker, startRet, consumer >>

\* shutdown without the select of lines 123-128: the channel is closed
\* whatever its state.
shutdownUnguarded ==
    /\ refreshKeysTicker' = IF refreshKeysTicker # "nil" THEN "nil" ELSE refreshKeysTicker
    /\ errorChan' = [errorChan EXCEPT !.closed = TRUE, !.closes = @ + 1]

\* shutdown (internal.go lines 114-131). closes counts the close statements
\* executed on the channel: a second one panics.
shutdown ==
    /\ refreshKeysTicker' = IF refreshKeysTicker # "nil" THEN "nil" ELSE refreshKeysTicker
    /\ errorChan' = IF errorChan.closed THEN errorChan
                    ELSE [errorChan EXCEPT !.closed = TRUE, !.closes = @ + 1]

\* The case of line 91 without the return of line 93: shutdown runs and the
\* goroutine goes round the loop again.
LoopCtxDoneNoReturn ==
    /\ loopPc = "loop"
    /\ ctxDone
    /\ shutdown
    /\ loopPc' = "loop"
    /\ UNCHANGED << svc, authn, now, ctxDone, tick, tokVars, reqVars, keyVars,
                    started, loops, startRet, consumer >>

\* Lines 91-93: the context is done; shutdown runs and the goroutine returns.
LoopCtxDone ==
    /\ loopPc = "loop"
    /\ ctxDone
    /\ shutdown
    /\ loopPc' = "stopped"
    /\ UNCHANGED << svc, authn, now, ctxDone, tick, tokVars, reqVars, keyVars,
                    started, loops, startRet, consumer >>

\* A call of shutdown from outside the goroutine, made while the goroutine
\* does not run: before Start (the ticker was never created) or after the
\* goroutine has stopped (a second call). It returns nil (line 130).
NoShutdowns == [calls |-> 0, ret |-> "none"]
ShutdownCall ==
    /\ loopPc \in {"none", "stopped"}
    /\ svc.shutdowns.calls < MaxShutdowns
    /\ shutdown
    /\ svc' = [svc EXCEPT !.shutdowns = [calls |-> @.calls + 1, ret |-> "nil"]]
    /\ UNCHANGED << authn, now, ctxDone, tick, tokVars, reqVars, keyVars,
                    started, loopPc, loops, startRet, consumer >>

\* ------------------------- Service.startAuthService (lifecycle.go 150-161)

\* The head of the for loop: the select evaluates s.internal.auth.Start().
ConsumerStart ==
    /\ consumer.pc = "top"
    /\ StartOnce
    /\ consumer' = [consumer EXCEPT !.pc = "select", !.chan = errorChan.id]
    /\ UNCHANGED << svc, authn, now, ctxDone, tick, tokVars, reqVars, keyVars, errorChan, startRet >>

\* case err := <-Start(): the pending send of the goroutine completes and the
\* error is logged.
ConsumerReceive ==
    /\ consumer.pc = "select"
    /\ errorChan.sending
    /\ loopPc = "send"
    /\ errorChan' = [errorChan EXCEPT !.sending = FALSE]
    /\ loopPc' = "loop"
    /\ consumer' = [consumer EXCEPT !.pc = "top", !.logged = TRUE]
    /\ UNCHANGED << svc, authn, now, ctxDone, tick, tokVars, reqVars, keyVars,
                    started, loops, refreshKeysTicker, startRet >>

\* case err := <-Start() on the closed channel: err is nil, nothing is logged.
ConsumerReceiveClosed ==
    /\ consumer.pc = "select"
    /\ errorChan.closed
    /\ consumer' = [consumer EXCEPT !.pc = "top"]
    /\ UNCHANGED << svc, authn, now, ctxDone, tick, tokVars, reqVars, keyVars,
                    started, loopPc, loops, errorChan, refreshKeysTicker, startRet >>

\* case <-s.Context.Done(): return.
ConsumerReturn ==
    /\ consumer.pc = "select"
    /\ ctxDone
    /\ consumer' = [consumer EXCEPT !.pc = "returned"]
    /\ UNCHANGED << svc, authn, now, ctxDone, tick, tokVars, reqVars, keyVars,
                    started, loopPc, loops, errorChan, refreshKeysTicker, startRet >>

\* ----------------------------------- Service.teardown (lifecycle.go 166-224)

teardownTimeout == 5    \* the argument Run passes to teardown
Components == {"Cloud SQL", "Router"}

\* svc.td is a call of teardown: the position of its own goroutine, the
\* seconds since it was called, the goroutine of each component, errCh with
\* the components whose errors it buffers, and what teardown returned.
NoTeardown ==
    [pc |-> "none", elapsed |-> 0, comp |-> [c \in Components |-> "none"],
     errCh |-> << >>, closed |-> FALSE, reported |-> << >>,
     finalErr |-> "nil", ret |-> "none"]

\* Lines 166-204: the context with the timeout is made, a goroutine per
\* component and the closing goroutine are launched.
teardownCall ==
    /\ svc.td.pc = "none"
    /\ svc' = [svc EXCEPT !.td.pc = "select",
                          !.td.comp = [c \in Components |-> "running"]]
    /\ UNCHANGED << authn, now, ctxDone, tick, tokVars, reqVars, keyVars, loopVars >>

\* Line 190: c.Function() returns, at whatever time it does, with or without
\* an error; without one the goroutine is done (wg.Done).
componentReturns(c, err) ==
    /\ svc.td.comp[c] = "running"
    /\ svc' = [svc EXCEPT !.td.comp[c] = IF err THEN "failed" ELSE "done"]
    /\ UNCHANGED << authn, now, ctxDone, tick, tokVars, reqVars, keyVars, loopVars >>

\* The select of lines 191-195: the error goes into errCh, whose buffer has
\* room for every component, or, once the timeout has passed, may be dropped.
componentSelect(c, send) ==
    /\ svc.td.comp[c] = "failed"
    /\ IF send
       THEN svc' = [svc EXCEPT !.td.comp[c] = "done",
                               !.td.errCh = Append(@, c),
                               !.td.reported = Append(@, c)]
       ELSE /\ svc.td.elapsed >= teardownTimeout
            /\ svc' = [svc EXCEPT !.td.comp[c] = "done"]
    /\ UNCHANGED << authn, now, ctxDone, tick, tokVars, reqVars, keyVars, loopVars >>

\* Lines 201-204: wg.Wait() returns when every component goroutine is done,
\* and errCh is closed.
closeErrCh ==
    /\ \A c \in Components : svc.td.comp[c] = "done"
    /\ ~svc.td.closed
    /\ svc' = [svc EXCEPT !.td.closed = TRUE]
    /\ UNCHANGED << authn, now, ctxDone, tick, tokVars, reqVars, keyVars, loopVars >>

\* Lines 209-211: case <-ctx.Done(): return nil.
teardownCtxDone ==
    /\ svc.td.pc = "select"
    /\ svc.td.elapsed >= teardownTimeout
    /\ svc' = [svc EXCEPT !.td.pc = "returned", !.td.ret = "nil"]
    /\ UNCHANGED << authn, now, ctxDone, tick, tokVars, reqVars, keyVars, loopVars >>

\* Lines 212-213: case err := <-errCh, a buffered error or the nil of the
\* closed channel.
teardownReceive ==
    /\ svc.td.pc = "select"
    /\ \/ /\ svc.td.errCh # << >>
          /\ svc' = [svc EXCEPT !.td.pc = "range", !.td.finalErr = Head(svc.td.errCh),
                                !.td.errCh = Tail(@)]
       \/ /\ svc.td.errCh = << >> /\ svc.td.closed
          /\ svc' = [svc EXCEPT !.td.pc = "range"]
    /\ UNCHANGED << authn, now, ctxDone, tick, tokVars, reqVars, keyVars, loopVars >>

\* Lines 217-221: one turn of for err := range errCh.
teardownDrain ==
    /\ svc.td.pc = "range"
    /\ svc.td.errCh # << >>
    /\ svc' = [svc EXCEPT !.td.errCh = Tail(@),
                          !.td.finalErr = IF @ = "nil" THEN Head(svc.td.errCh) ELSE @]
    /\ UNCHANGED << authn, now, ctxDone, tick, tokVars, reqVars, keyVars, loopVars >>

\* Lines 217 and 223: the range ends on the closed, empty channel and
\* teardown returns finalErr.
teardownReturn ==
    /\ svc.td.pc = "range"
    /\ svc.td.errCh = << >> /\ svc.td.closed
    /\ svc' = [svc EXCEPT !.td.pc = "returned", !.td.ret = svc.td.finalErr]
    /\ UNCHANGED << authn, now, ctxDone, tick, tokVars, reqVars, keyVars, loopVars >>

\* A second passes for the call of teardown. It passes only when none of
\* the goroutines of teardown can take a step: what is left waiting is a
\* component's function, or teardown itself for a channel with nothing in it.
teardownTick ==
    /\ svc.td.pc \in {"select", "range"}
    /\ svc.td.elapsed < MaxTeardownTime
    /\ \A c \in Components : svc.td.comp[c] # "failed"
    /\ svc.td.closed \/ \E c \in Components : svc.td.comp[c] # "done"
    /\ svc.td.errCh = << >> /\ ~svc.td.closed
    /\ svc.td.pc = "select" => svc.td.elapsed < teardownTimeout
    /\ svc' = [svc EXCEPT !.td.elapsed = @ + 1]
    /\ UNCHANGED << authn, now, ctxDone, tick, tokVars, reqVars, keyVars, loopVars >>

\* ------------------------------------ a.mux, one lock operation at a time

\* refreshKeys and awaitKey once more, cut at their lock operations: what the
\* other sections take as one step (a lookup, a swap) is here the sequence of
\* statements between RLock and RUnlock, or Lock and Unlock.

Readers == 1..NumReaders
LockKids == {"k1", "k2"}

\* What the provider's RefreshKeys returns here: an error, a key that fails
\* Validate, and two batches that install different keys.
LockKeyResponses(t) ==
    { resp \in ProviderKeyResponses(t) :
        resp.keys \in { << >>,
                        << NewKey("k1", 1, 9, "RS256", "pemA") >>,
                        << NewKey("k2", 1, 9, "RS256", "pemB"), NewKey("k2", 1, 9, "RS256", "pemA") >>,
                        << NewKey("k1", 0, 9, "RS256", "pemA") >> } }

\* The key cache New leaves behind (auth.go lines 47-55), as a response.
NewKeys == [err |-> FALSE, keys |-> << >>, next |-> ZeroTime]

NoRefresh == [pc |-> "idle", resp |-> NewKeys, calls |-> 0]
NoReader == [pc |-> "idle", kid |-> "", ok |-> FALSE]

\* sync.RWMutex: RLock waits while a writer holds the lock or waits for it.
RLock(r) ==
    /\ ~mux.writer /\ ~mux.pending
    /\ mux' = [mux EXCEPT !.readers = @ \cup {r}]

RUnlock(r) == mux' = [mux EXCEPT !.readers = @ \ {r}]

\* refreshKeys is entered (internal.go line 85) and calls the provider (line 88).
refreshKeysCall ==
    /\ kproc.refresh.pc = "idle"
    /\ kproc.refresh.calls < MaxKeyCalls
    /\ kproc' = [kproc EXCEPT !.refresh.pc = "provider", !.refresh.calls = @ + 1]
    /\ UNCHANGED << svc, authn, now, ctxDone, tick, tokVars, reqVars, loopVars,
                    keys, nextKeyRefresh, keyCalls, mux >>

\* Lines 88-101: the provider returns resp; on an error or an invalid key
\* refreshKeys returns, without having touched the lock.
refreshKeysValidate(resp) ==
    /\ kproc.refresh.pc = "provider"
    /\ kproc' = IF refreshKeysFails(resp)
                THEN [kproc EXCEPT !.refresh.pc = "idle"]
                ELSE [kproc EXCEPT !.refresh.pc = "Lock", !.refresh.resp = resp]
    /\ UNCHANGED << svc, authn, now, ctxDone, tick, tokVars, reqVars, loopVars,
                    keys, nextKeyRefresh, keyCalls, mux >>

\* Line 104, a.mux.Lock() is called: from now on no new reader gets in.
refreshKeysLock ==
    /\ kproc.refresh.pc = "Lock"
    /\ mux' = [mux EXCEPT !.pending = TRUE]
    /\ kproc' = [kproc EXCEPT !.refresh.pc = "locking"]
    /\ UNCHANGED << svc, authn, now, ctxDone, tick, tokVars, reqVars, loopVars,
                    keys, nextKeyRefresh, keyCalls >>

\* A Lock that does not wait for the readers that hold the lock.
refreshKeysLockedAmongReaders ==
    /\ kproc.refresh.pc = "locking"
    /\ mux' = [mux EXCEPT !.pending = FALSE, !.writer = TRUE]
    /\ kproc' = [kproc EXCEPT !.refresh.pc = "line106"]
    /\ UNCHANGED << svc, authn, now, ctxDone, tick, tokVars, reqVars, loopVars,
                    keys, nextKeyRefresh, keyCalls >>

\* Line 104, a.mux.Lock() returns: the last reader has left.
refreshKeysLocked ==
    /\ kproc.refresh.pc = "locking"
    /\ mux.readers = {}
    /\ mux' = [mux EXCEPT !.pending = FALSE, !.writer = TRUE]
    /\ kproc' = [kproc EXCEPT !.refresh.pc = "line106"]
    /\ UNCHANGED << svc, authn, now, ctxDone, tick, tokVars, reqVars, loopVars,
                    keys, nextKeyRefresh, keyCalls >>

\* Line 106.
refreshKeysWriteNext ==
    /\ kproc.refresh.pc = "line106"
    /\ nextKeyRefresh' = kproc.refresh.resp.next
    /\ kproc' = [kproc EXCEPT !.refresh.pc = "line107"]
    /\ UNCHANGED << svc, authn, now, ctxDone, tick, tokVars, reqVars, loopVars,
                    keys, keyCalls, mux >>

\* Line 107.
refreshKeysWriteKeys ==
    /\ kproc.refresh.pc = "line107"
    /\ keys' = KeyMap(kproc.refresh.resp.keys)
    /\ kproc' = [kproc EXCEPT !.refresh.pc = "Unlock", !.installed = kproc.refresh.resp]
    /\ UNCHANGED << svc, authn, now, ctxDone, tick, tokVars, reqVars, loopVars,
                    nextKeyRefresh, keyCalls, mux >>

\* The deferred a.mux.Unlock() of line 105, as refreshKeys returns nil.
refreshKeysUnlock ==
    /\ kproc.refresh.pc = "Unlock"
    /\ mux' = [mux EXCEPT !.writer = FALSE]
    /\ kproc' = [kproc EXCEPT !.refresh.pc = "idle", !.refresh.resp = NewKeys]
    /\ UNCHANGED << svc, authn, now, ctxDone, tick, tokVars, reqVars, loopVars,
                    keys, nextKeyRefresh, keyCalls >>

\* awaitKey(kid) is entered (lines 43-48) and calls keyWithID (line 52).
awaitKeyCall(r, kid) ==
    /\ kproc.reader[r].pc = "idle"
    /\ kproc' = [kproc EXCEPT !.reader[r] = [pc |-> "keyWithID", kid |-> kid, ok |-> FALSE]]
    /\ UNCHANGED << svc, authn, now, ctxDone, tick, tokVars, reqVars, loopVars,
                    keys, nextKeyRefresh, keyCalls, mux >>

\* keyWithID, line 77.
keyWithIDRLock(r) ==
    /\ kproc.reader[r].pc = "keyWithID"
    /\ RLock(r)
    /\ kproc' = [kproc EXCEPT !.reader[r].pc = "line79"]
    /\ UNCHANGED << svc, authn, now, ctxDone, tick, tokVars, reqVars, loopVars,
                    keys, nextKeyRefresh, keyCalls >>

\* keyWithID, lines 79-80 with the deferred RUnlock, and lines 53-55 of awaitKey.
keyWithIDReturn(r) ==
    /\ kproc.reader[r].pc = "line79"
    /\ RUnlock(r)
    /\ kproc' = IF kproc.reader[r].kid \in DOMAIN keys
                THEN [kproc EXCEPT !.reader[r] = [NoReader EXCEPT !.ok = TRUE]]
                ELSE [kproc EXCEPT !.reader[r].pc = "line58"]
    /\ UNCHANGED << svc, authn, now, ctxDone, tick, tokVars, reqVars, loopVars,
                    keys, nextKeyRefresh, keyCalls >>

\* awaitKey, line 58.
awaitKeyRLock(r) ==
    /\ kproc.reader[r].pc = "line58"
    /\ RLock(r)
    /\ kproc' = [kproc EXCEPT !.reader[r].pc = "line59"]
    /\ UNCHANGED << svc, authn, now, ctxDone, tick, tokVars, reqVars, loopVars,
                    keys, nextKeyRefresh, keyCalls >>

\* An awaitKey that keeps its read lock while it waits in the select.
awaitKeyKeepsRLock(r) ==
    /\ kproc.reader[r].pc = "line59"
    /\ kproc' = IF now > nextKeyRefresh
                THEN [kproc EXCEPT !.reader[r].pc = "select"]
                ELSE [kproc EXCEPT !.reader[r] = NoReader]
    /\ mux' = IF now > nextKeyRefresh THEN mux ELSE [mux EXCEPT !.readers = @ \ {r}]
    /\ UNCHANGED << svc, authn, now, ctxDone, tick, tokVars, reqVars, loopVars,
                    keys, nextKeyRefresh, keyCalls >>

\* awaitKey, lines 59-63.
awaitKeyRUnlock(r) ==
    /\ kproc.reader[r].pc = "line59"
    /\ RUnlock(r)
    /\ kproc' = IF now > nextKeyRefresh
                THEN [kproc EXCEPT !.reader[r].pc = "select"]
                ELSE [kproc EXCEPT !.reader[r] = NoReader]
    /\ UNCHANGED << svc, authn, now, ctxDone, tick, tokVars, reqVars, loopVars,
                    keys, nextKeyRefresh, keyCalls >>

\* awaitKey, the select of lines 66-70: the ticker, or the timeout. What
\* wakes the call is the runtime's timer; no lock is asked for.
awaitKeySelect(r, timedOut) ==
    /\ kproc.reader[r].pc = "select"
    /\ kproc' = IF timedOut
                THEN [kproc EXCEPT !.reader[r] = NoReader]
                ELSE [kproc EXCEPT !.reader[r].pc = "keyWithID"]
    /\ UNCHANGED << svc, authn, now, ctxDone, tick, tokVars, reqVars, loopVars,
                    keys, nextKeyRefresh, keyCalls, mux >>

\* ------------------------------------------------------------ environment

\* One second passes: each running ticker buffers at most one tick. The
\* steps of awaitKey take no time that counts in seconds: its deadline does
\* not pass while the call can take a step.
Tick(limit) ==
    /\ now < limit
    /\ authn.pc \in {"awaitKey", "isRefreshing", "select"} => now < authn.timeout
    /\ now' = now + 1
    /\ tick' = [key |-> tick.key \/ refreshKeysTicker = "running",
                token |-> tick.token \/ started]
    /\ UNCHANGED << svc, authn, ctxDone, tokVars, reqVars, keyVars, loopVars >>

\* The context passed to New is cancelled.
Cancel ==
    /\ ~ctxDone
    /\ ctxDone' = TRUE
    /\ UNCHANGED << svc, authn, now, tick, tokVars, reqVars, keyVars, loopVars >>

\* ------------------------------------------------------------------- Init

\* The state New leaves behind (auth.go lines 47-55), with no request issued.
Init ==
    /\ now = 0
    /\ ctxDone = FALSE
    /\ accessToken = NilToken
    /\ nextAccessTokenRefresh = NilTime
    /\ tokenRefresher = NoCall
    /\ keys = << >>
    /\ nextKeyRefresh = ZeroTime
    /\ errorChan = [id |-> 1, closed |-> FALSE, sending |-> FALSE, closes |-> 0]
    /\ refreshKeysTicker = "nil"
    /\ tick = [key |-> FALSE, token |-> FALSE]
    /\ started = FALSE
    /\ loopPc = "none"
    /\ loops = 0
    /\ refreshCalls = 0
    /\ inFlight = {}
    /\ writers = {}
    /\ lastReturn = "none"
    /\ keyCalls = << 0, 0 >>
    /\ mux = [writer |-> FALSE, pending |-> FALSE, readers |-> {}]
    /\ kproc = [refresh |-> NoRefresh, reader |-> [r \in Readers |-> NoReader],
                installed |-> NewKeys]
    /\ rt = [c \in Callers |-> [pc |-> "idle", outcome |-> "", header |-> PriorHeader(c),
                                sentWith |-> NotSent, got |-> NoResult,
                                missedAfter |-> 0, cache |-> ""]]
    /\ gor = [c \in Callers |-> [pc |-> "none", call |-> 0, led |-> FALSE]]
    /\ startRet = [s \in Starters |-> 0]
    /\ consumer = [pc |-> "top", chan |-> 0, logged |-> FALSE]
    /\ authn = NotCalled
    /\ svc = [ep |-> NoEndpoint, run |-> NoRun, shutdowns |-> NoShutdowns, td |-> NoTeardown]

\* --------------------------------------- the access-token side of the program

Request(c) ==
    /\ \/ RoundTripCached(c)
       \/ RoundTripMiss(c)
       \/ DoLead(c)
       \/ DoJoin(c)
       \/ \E resp \in ProviderTokenResponses(gor[c].call, now) : DoReturn(c, resp)
       \/ RoundTripTimeout(c)
    /\ UNCHANGED << svc, authn, now, ctxDone, tick, keyVars, loopVars >>

\* The runs of the access-token side: the requests, the goroutine of Start
\* with its access-token ticker, and the clock. The key provider answers the
\* initial refresh with one fixed batch; the key ticker, which touches only
\* the key cache, is left to the other specifications.
FixedKeyResponse ==
    [err |-> FALSE, keys |-> << NewKey("k1", 1, 9, "RS256", "pemA") >>, next |-> MaxTime]

NextToken ==
    \/ \E c \in Callers : Request(c)
    \/ Start(1)
    \/ LoopInit
    \/ LoopKeysReturn(FixedKeyResponse)
    \/ LoopAccessTokenTick
    \/ \E resp \in ProviderTokenResponses(refreshCalls, now) : LoopAccessTokenReturn(resp)
    \/ Tick(MaxTime)

SpecToken == Init /\ [][NextToken]_vars

\* The same runs without the 30-second timeout of RoundTrip (line 227), which
\* lies beyond the clock of these runs: every request waits for its result.
RequestNoTimeout(c) ==
    /\ \/ RoundTripCached(c)
       \/ RoundTripMiss(c)
       \/ DoLead(c)
       \/ DoJoin(c)
       \/ \E resp \in ProviderTokenResponses(gor[c].call, now) : DoReturn(c, resp)
    /\ UNCHANGED << svc, authn, now, ctxDone, tick, keyVars, loopVars >>

NextRefresh ==
    \/ \E c \in Callers : RequestNoTimeout(c)
    \/ Start(1)
    \/ LoopInit
    \/ LoopKeysReturn(FixedKeyResponse)
    \/ LoopAccessTokenTick
    \/ \E resp \in ProviderTokenResponses(refreshCalls, now) : LoopAccessTokenReturn(resp)
    \/ Tick(MaxTime)

SpecRefresh == Init /\ [][NextRefresh]_vars

\* The outbound requests alone, with the clock: Start has not been called.
NextRequests ==
    \/ \E c \in Callers : Request(c)
    \/ Tick(MaxTime)

SpecRequests == Init /\ [][NextRequests]_vars

\* ----------------------------------------------- the lifecycle of the scheduler

\* Start and its callers, the goroutine it launches, startAuthService, the
\* clock and the cancellation of the context. No outbound request is made, so
\* a.nextAccessTokenRefresh stays nil and every access-token tick is idle.
Next ==
    \/ \E s \in Starters : Start(s)
    \/ LoopInit
    \/ \E resp \in ProviderKeyResponses(now) : LoopKeysReturn(resp)
    \/ LoopAccessTokenTick
    \/ LoopKeysTick
    \/ LoopCtxDone
    \/ ConsumerStart
    \/ ConsumerReceive
    \/ ConsumerReceiveClosed
    \/ ConsumerReturn
    \/ Tick(MaxTime)
    \/ Cancel

Spec == Init /\ [][Next]_vars

\* The scheduling the Go runtime gives the two goroutines: a goroutine that
\* can run does run, a provider call returns, and a select with a ready case
\* takes one of its ready cases.
Fairness ==
    /\ WF_vars(LoopInit)
    /\ WF_vars(\E resp \in ProviderKeyResponses(now) : LoopKeysReturn(resp))
    /\ WF_vars(LoopAccessTokenTick \/ LoopKeysTick \/ LoopCtxDone)
    /\ WF_vars(ConsumerStart)
    /\ WF_vars(ConsumerReceive \/ ConsumerReceiveClosed \/ ConsumerReturn)
SpecLive == Init /\ [][Next]_vars /\ Fairness

\* The same lifecycle with calls of shutdown from outside the goroutine. A
\* send on a closed channel panics: the process takes no further step.
Panicked == errorChan.closed /\ errorChan.sending
NextShutdown ==
    \/ ~Panicked /\ \E s \in Starters : Start(s)
    \/ ~Panicked /\ LoopInit
    \/ ~Panicked /\ \E resp \in ProviderKeyResponses(now) : LoopKeysReturn(resp)
    \/ ~Panicked /\ LoopAccessTokenTick
    \/ ~Panicked /\ LoopKeysTick
    \/ ~Panicked /\ LoopCtxDone
    \/ ~Panicked /\ ConsumerStart
    \/ ~Panicked /\ ConsumerReceive
    \/ ~Panicked /\ ConsumerReceiveClosed
    \/ ~Panicked /\ ConsumerReturn
    \/ ~Panicked /\ Tick(MaxTime)
    \/ ~Panicked /\ Cancel
    \/ ~Panicked /\ ShutdownCall
SpecShutdown == Init /\ [][NextShutdown]_vars

\* ------------------------------------- the authentication side of the program

\* The key sets the provider hands out in the authentication runs: the valid
\* batches of KeyBatches without a repeated kid, the next refresh due two
\* seconds later.
AuthnKeyResponses(t) ==
    { resp \in ProviderKeyResponses(t) :
        /\ ~refreshKeysFails(resp)
        /\ resp.next = t + 2
        /\ Len(resp.keys) = 2 => resp.keys[1].Kid # resp.keys[2].Kid }

NextAuthn ==
    \/ \E req \in Requests : Authenticate(req)
    \/ awaitKey
    \/ awaitKeyIsRefreshing
    \/ awaitKeyTicker
    \/ awaitKeyTimeout
    \/ Start(1)
    \/ LoopInit
    \/ \E resp \in AuthnKeyResponses(now) : LoopKeysReturn(resp)
    \/ LoopKeysTick
    \/ Tick(MaxAuthTime)
SpecAuthn == Init /\ [][NextAuthn]_vars

\* The scheduling of the goroutine that runs Authenticate: it takes the step
\* it can take, its select proceeds when a case is ready, and time passes.
\* Nothing is asked of the scheduler of Start or of the provider: a refresh
\* may stay in flight for ever.
FairnessAuthn ==
    /\ WF_vars(awaitKey)
    /\ WF_vars(awaitKeyIsRefreshing)
    /\ WF_vars(awaitKeyTicker \/ awaitKeyTimeout)
    /\ WF_vars(Tick(MaxAuthTime))

\* The runs of awaitKey: requests whose token has both headers, with the
\* kid of a key the provider hands out at times ("k1", "k2") or never ("k9").
AwaitRequests ==
    { [nil |-> FALSE, header |-> << "B", "e", "a", "r", "e", "r", " ", n >>] :
        n \in {"T0", "T11", "T12"} }

NextAwait ==
    \/ \E req \in AwaitRequests : Authenticate(req)
    \/ awaitKey
    \/ awaitKeyIsRefreshing
    \/ awaitKeyTicker
    \/ awaitKeyTimeout
    \/ Start(1)
    \/ LoopInit
    \/ \E resp \in AuthnKeyResponses(now) : LoopKeysReturn(resp)
    \/ LoopKeysTick
    \/ Tick(MaxAuthTime)
SpecAwait == Init /\ [][NextAwait]_vars /\ FairnessAuthn

\* ---------------------------------------------- the endpoints of the Service

\* A request to an endpoint: Authenticate with the key cache filled once by
\* the initial refresh, then the rest of the wrapped handler.
NextEndpoint ==
    \/ \E req \in Requests : Authenticate(req)
    \/ awaitKey
    \/ awaitKeyIsRefreshing
    \/ awaitKeyTicker
    \/ awaitKeyTimeout
    \/ \E kind \in EndpointKinds, isVerified \in BOOLEAN, authz \in AuthorizeResults,
          resp \in HandlerResponses : wrappedHandler(kind, isVerified, authz, resp)
    \/ Start(1)
    \/ LoopInit
    \/ LoopKeysReturn(FixedKeyResponse)
    \/ Tick(MaxAuthTime)
SpecEndpoint == Init /\ [][NextEndpoint]_vars

\* ------------------------------------------------- the lifecycle of the Service

\* Run with the signals, the router and teardown; Cancel is Service.Shutdown
\* (main.go 179-181) or the cancellation of a parent context.
NextRun ==
    \/ \E state \in States : RunStarting(state)
    \/ RunNotify
    \/ RunRunning
    \/ Signal
    \/ RouterFails
    \/ RunTerminate
    \/ RunContextDone
    \/ RunRouterError
    \/ \E err \in BOOLEAN : teardownReturns(err)
    \/ RunTeardownComplete
    \/ RunTerminateAgain
    \/ Cancel
SpecRun == Init /\ [][NextRun]_vars

\* ---------------------------------------------- the scheduler with both timers

\* The goroutine of Start with both of its tickers, started and listened to
\* by startAuthService, and one outbound request at a time, through which
\* the access token and its refresh time come to be set.
NextSched ==
    \/ RequestNoTimeout(1)
    \/ ConsumerStart
    \/ LoopInit
    \/ \E resp \in ProviderKeyResponses(now) : LoopKeysReturn(resp)
    \/ LoopAccessTokenTick
    \/ \E resp \in ProviderTokenResponses(refreshCalls, now) : LoopAccessTokenReturn(resp)
    \/ LoopKeysTick
    \/ ConsumerReceive
    \/ Tick(MaxTime)

SpecSched == Init /\ [][NextSched]_vars

\* ------------------------------------------------------- a call of teardown

NextTeardown ==
    \/ teardownCall
    \/ \E c \in Components, err \in BOOLEAN : componentReturns(c, err)
    \/ \E c \in Components, send \in BOOLEAN : componentSelect(c, send)
    \/ closeErrCh
    \/ teardownCtxDone
    \/ teardownReceive
    \/ teardownDrain
    \/ teardownReturn
    \/ teardownTick

SpecTeardown == Init /\ [][NextTeardown]_vars

\* ------------------------------------------------- the lock of the key cache

\* One refreshKeys at a time (its only caller is the goroutine of Start) and
\* NumReaders goroutines inside awaitKey, all within one second of the clock.
\* A step named in FairnessLock is one of a goroutine that is running and
\* waits for nothing else, which the Go scheduler does not leave out for ever.
NextLock ==
    \/ refreshKeysCall
    \/ \E resp \in LockKeyResponses(now) : refreshKeysValidate(resp)
    \/ refreshKeysLock
    \/ refreshKeysLocked
    \/ refreshKeysWriteNext
    \/ refreshKeysWriteKeys
    \/ refreshKeysUnlock
    \/ \E r \in Readers, kid \in LockKids : awaitKeyCall(r, kid)
    \/ \E r \in Readers : keyWithIDRLock(r)
    \/ \E r \in Readers : keyWithIDReturn(r)
    \/ \E r \in Readers : awaitKeyRLock(r)
    \/ \E r \in Readers : awaitKeyRUnlock(r)
    \/ \E r \in Readers, timedOut \in BOOLEAN : awaitKeySelect(r, timedOut)

FairnessLock ==
    /\ WF_vars(refreshKeysLock)
    /\ WF_vars(refreshKeysLocked)
    /\ WF_vars(refreshKeysWriteNext)
    /\ WF_vars(refreshKeysWriteKeys)
    /\ WF_vars(refreshKeysUnlock)
    /\ \A r \in Readers : WF_vars(keyWithIDReturn(r))
    /\ \A r \in Readers : WF_vars(awaitKeyRUnlock(r))

SpecLock == Init /\ [][NextLock]_vars /\ FairnessLock

\* ======================================================== the claims checked

\* ---- C1
\* The requests that missed the cache before any provider call had returned,
\* and the ones among them that got an answer from singleflight.Do.
EarlyMissers == { c \in Callers : gor[c].pc # "none" /\ rt[c].missedAfter = 0 }
Answered == { c \in Callers : rt[c].outcome \in {"sent", "empty", "error"} }

\* C1: requests that all miss the cache while no token is cached and before
\* any refresh has returned are served by one provider call: they all join the
\* same call and receive the same token or the same error.
C1_RefreshCoalescing ==
    /\ Cardinality({ gor[c].call : c \in { x \in EarlyMissers : gor[x].pc \in {"do", "exit"} } }) <= 1
    /\ \A c, d \in EarlyMissers \cap Answered : rt[c].got = rt[d].got

\* ---- C2
\* C2: at most one RefreshAccessToken invocation is in flight, and only the
\* coalesced refresh of singleflight.Do writes the cached access token.
C2_SingleRefreshInFlight ==
    /\ Cardinality(inFlight) <= 1
    /\ writers \subseteq {"flight"}

\* ---- C4
\* Request c went the slow path while no other request's goroutine was
\* pending: every other request is still idle, was served from the cache, or
\* had its refresh returned before c missed.
Alone(c) ==
    /\ gor[c].pc = "exit"
    /\ \A d \in Callers \ {c} :
          \/ gor[d].pc = "none"
          \/ gor[d].pc = "exit" /\ gor[d].call <= rt[c].missedAfter

\* C4: the transport is called only with a non-empty token that RoundTrip got
\* and wrote into the Authorization header; a request whose token fetch
\* failed, timed out or gave an empty token never reaches the transport; and a
\* request that misses the cache alone makes exactly one provider call and, if
\* sent, carries the token of that call.
C4_TransportOnlyWithToken ==
    \A c \in Callers :
        /\ rt[c].sentWith.set =>
              /\ rt[c].outcome = "sent"
              /\ ~rt[c].got.err /\ ~rt[c].got.token.nil /\ rt[c].got.token.Token # 0
              /\ rt[c].header = [set |-> TRUE, bearer |-> rt[c].got.token.Token]
              /\ rt[c].sentWith = rt[c].header
        /\ rt[c].outcome \in {"timeout", "error", "empty"} =>
              ~rt[c].sentWith.set /\ rt[c].header = PriorHeader(c)
        /\ (rt[c].pc = "done" /\ rt[c].outcome # "timeout"
                /\ (rt[c].got.err \/ rt[c].got.token.nil \/ rt[c].got.token.Token = 0))
              => ~rt[c].sentWith.set
        /\ (Alone(c) /\ rt[c].outcome # "timeout") =>
              /\ gor[c].led
              /\ gor[c].call = rt[c].missedAfter + 1
              /\ refreshCalls = rt[c].missedAfter + 1
              /\ rt[c].outcome = "sent" => rt[c].sentWith.bearer = gor[c].call

\* A request issued while the cached token had expired was sent with the
\* token of the one refresh it made.
C4_Witness ==
    \E c \in Callers :
        /\ Alone(c) /\ rt[c].outcome = "sent"
        /\ rt[c].cache = "expired" /\ rt[c].sentWith.bearer = refreshCalls
        /\ PriorHeader(c).set

\* ---- C5
\* A step in which request c times out.
TimesOut(c) == rt[c].pc = "wait" /\ rt'[c].outcome = "timeout"

\* C5: a timeout fails the one request that timed out and nothing else: the
\* call in flight, the goroutines and the other requests are as before, the
\* call can still return, and every joined request that did not time out gets
\* the result of the call.
C5_TimeoutFailsOnlyCaller ==
    /\ [][ \A c \in Callers : TimesOut(c) =>
              /\ ~rt'[c].sentWith.set /\ rt'[c].got = NoResult
              /\ UNCHANGED << tokVars, gor >>
              /\ \A d \in Callers \ {c} : rt'[d] = rt[d]
              /\ tokenRefresher.active =>
                    ENABLED (\E resp \in ProviderTokenResponses(refreshCalls, now) :
                                DoReturn(tokenRefresher.leader, resp)) ]_vars
    /\ [](\A c, d \in Callers :
              (/\ rt[c].outcome = "timeout" /\ gor[c].pc = "exit"
               /\ gor[d].pc = "exit" /\ gor[d].call = gor[c].call
               /\ rt[d].outcome # "timeout")
              => /\ rt[d].outcome \in {"sent", "empty", "error"}
                 /\ rt[d].outcome = "sent" => rt[d].sentWith.bearer = gor[d].call)

\* One request timed out, the call it had joined returned all the same, and
\* another request that had joined it was sent with its token.
C5_Witness ==
    \E c, d \in Callers :
        /\ rt[c].outcome = "timeout" /\ gor[c].pc = "exit"
        /\ gor[d].call = gor[c].call /\ rt[d].outcome = "sent"

\* ---- C3
\* C3: however often Start is called, by the service's own loop and by
\* others, there is one background goroutine and one initial RefreshKeys
\* call, and every call has returned the one error channel.
C3_StartIdempotent ==
    /\ loops <= 1 /\ keyCalls[1] <= 1
    /\ (consumer.chan # 0 \/ \E s \in Starters : startRet[s] # 0) => started /\ loops = 1
    /\ loopPc \notin {"none", "launched"} => keyCalls[1] = 1
    /\ \A s \in Starters : startRet[s] # 0 => startRet[s] = errorChan.id
    /\ consumer.chan # 0 => consumer.chan = errorChan.id

\* Start has been called by every caller and more than once by the service's
\* loop, and the initial key refresh has been made.
C3_Witness ==
    /\ \A s \in Starters : startRet[s] # 0
    /\ consumer.logged /\ consumer.pc = "select"
    /\ keyCalls[1] = 1 /\ loops = 1

\* ---- C6
\* C6: a request that finds a valid token in the cache gets that token, and
\* neither calls the provider nor starts or joins a coalesced refresh.
C6_CacheHitShortCircuits ==
    [][ \A c \in Callers :
          (rt[c].pc = "idle" /\ rt'[c].pc # "idle" /\ getAccessTokenOk) =>
              /\ rt'[c].pc = "done"
              /\ ~rt'[c].got.err
              /\ rt'[c].got.token = Returned(accessToken)
              /\ UNCHANGED << tokVars, gor >> ]_vars

\* A request was served from the cache: it was sent and has no goroutine.
C6_Witness ==
    \E c \in Callers : rt[c].outcome = "sent" /\ gor[c].pc = "none"

\* ---- C7
\* The header h begins with the scheme "bearer " in any letter case, and what
\* follows the scheme in it is nothing but white space.
BearerLetters ==
    << {"b", "B"}, {"e", "E"}, {"a", "A"}, {"r", "R"}, {"e", "E"}, {"r", "R"}, {" "} >>
HasScheme(h) == Len(h) >= 7 /\ \A i \in 1..7 : h[i] \in BearerLetters[i]
NoToken(h) == \A i \in 8..Len(h) : h[i] \in {" ", "\t"}

\* C7: a request without Authorization header, one whose header does not
\* begin with "bearer " in any letter case, and one whose header holds no
\* token after the scheme are each refused with a nil error and a reason of
\* their own, and validateJWT is not called for any of them.
C7_HeaderRejections ==
    (authn.pc = "done" /\ ~authn.req.nil) =>
        LET h == authn.req.header
        IN /\ h = << >> =>
                authn.res = AuthResult(FALSE, "missing authorization header", "nil")
           /\ (h # << >> /\ ~HasScheme(h)) =>
                authn.res = AuthResult(FALSE, "malformed authorization header", "nil")
           /\ (HasScheme(h) /\ NoToken(h)) =>
                authn.res = AuthResult(FALSE, "missing bearer token", "nil")
           /\ (h = << >> \/ ~HasScheme(h) \/ NoToken(h)) => ~authn.validated /\ ~authn.awaited

\* A header that holds the scheme and white space only was refused for its
\* missing token.
C7_Witness ==
    /\ authn.pc = "done" /\ ~authn.req.nil
    /\ Len(authn.req.header) > 7 /\ HasScheme(authn.req.header) /\ NoToken(authn.req.header)
    /\ authn.res.reason = "missing bearer token" /\ ~authn.validated

\* ---- C8, C9, C10
\* The step in which Authenticate returns, and the token validateJWT was given.
Returns == authn.pc # "done" /\ authn'.pc = "done"
Presented == Decode(authn'.text)
HasString(p) == p.kind = "string" /\ p.val # ""

\* The algorithm names, letter case set aside.
Fold(a) ==
    CASE a \in {"RS256", "rs256"} -> "rs256"
      [] a = "HS256" -> "hs256"
      [] a = "PS256" -> "ps256"
      [] a = "XX999" -> "xx999"
      [] OTHER -> a

\* The token names a key of the cache Authenticate returns on.
Resolves == Presented.kid.kind = "string" /\ Presented.kid.val \in DOMAIN keys
Resolved == keys[Presented.kid.val]

\* The reason for an algorithm that is not the key's, in the words of the
\* specification and in those of validateJWT.
AlgInvalidReasons ==
    {"value for algorithm header is invalid", "value for 'alg' header is invalid"}

\* C8: a token whose kid names a cached key of another algorithm than its alg
\* header, letter case set aside, is refused with the reason for an invalid
\* algorithm and a nil error, and its signature is not verified; a token whose
\* alg is the key's up to letter case is not refused for that reason.
C8_AlgMismatchRejected ==
    [][ (Returns /\ authn'.validated /\ Presented.form = "jwt"
            /\ HasString(Presented.alg) /\ Resolves) =>
          IF Fold(Resolved.Alg) # Fold(Presented.alg.val)
          THEN /\ ~authn'.res.authenticated
               /\ authn'.res.reason \in AlgInvalidReasons
               /\ authn'.res.err = "nil"
               /\ ~authn'.verified
          ELSE authn'.res.reason \notin AlgInvalidReasons ]_vars

\* C9: a token without an alg header, or without a kid header, is refused by
\* validateJWT with valid=false, the reason of the missing header and a nil
\* error, and no key is looked up for it.
C9_MissingHeaderRejected ==
    LET tok == Decode(authn.text)
        reasons == (IF ~HasString(tok.alg)
                    THEN {"token header is missing an 'alg' value"} ELSE {})
                   \cup (IF ~HasString(tok.kid)
                         THEN {"token header is missing a 'kid' value"} ELSE {})
    IN (authn.pc = "done" /\ authn.validated /\ tok.form = "jwt" /\ reasons # {}) =>
          /\ ~authn.vres.isValid
          /\ authn.vres.reason \in reasons
          /\ authn.vres.err = "nil"
          /\ ~authn.awaited

\* The signature of the token was made with the private key of the RSA
\* public key k, by the method the token names; its time claims hold at t.
SignedBy(tok, k) ==
    /\ tok.alg.val \in {"RS256", "RS384", "RS512", "PS256", "PS384", "PS512"}
    /\ k.Pem \in {"pemA", "pemB"}
    /\ tok.sig = [pem |-> k.Pem, alg |-> tok.alg.val]
TimeValid(tok, t) ==
    /\ tok.exp.has => t < tok.exp.at
    /\ tok.nbf.has => t >= tok.nbf.at

\* C10: when awaitKey looks the kid of a token up and finds a key of the
\* cache whose algorithm is the token's up to letter case, under which the
\* token's signature verifies, and the token's time claims hold, validateJWT
\* returns (true, "", nil) and so does Authenticate.
C10_ValidTokenAccepted ==
    [][ (Returns /\ authn.pc = "awaitKey" /\ Presented.form = "jwt"
            /\ HasString(Presented.alg) /\ Resolves
            /\ Fold(Resolved.Alg) = Fold(Presented.alg.val)
            /\ SignedBy(Presented, Resolved)
            /\ TimeValid(Presented, now)) =>
          /\ authn'.vres = ValidateResult(TRUE, "", "nil")
          /\ authn'.res = AuthResult(TRUE, "", "nil") ]_vars

\* A token was accepted against a cached key whose algorithm is written in
\* another letter case than the token's alg header.
C10_Witness ==
    /\ authn.pc = "done" /\ authn.res = AuthResult(TRUE, "", "nil")
    /\ authn.text = << "T0" >> /\ authn.at > 0
    /\ "k1" \in DOMAIN keys /\ keys["k1"].Alg = "rs256"

\* ---- C11
\* A result (ok, reason, err) uses one channel at a time.
OneChannel(ok, reason, err) ==
    /\ ok => reason = "" /\ err = "nil"
    /\ reason # "" => ~ok /\ err = "nil"
    /\ err # "nil" => ~ok /\ reason = ""

\* C11: in every result of validateJWT and of Authenticate, true comes with an
\* empty reason and a nil error, a reason with false and a nil error, an error
\* with false and an empty reason; and when the PEM of the key awaitKey found
\* for a token of the key's algorithm does not parse, both functions return an
\* error and no reason.
C11_ChannelsNotConflated ==
    /\ [](authn.pc = "done" =>
            /\ OneChannel(authn.res.authenticated, authn.res.reason, authn.res.err)
            /\ authn.validated =>
                  /\ OneChannel(authn.vres.isValid, authn.vres.reason, authn.vres.err)
                  /\ authn.vres.err # "nil" <=> authn.res.err # "nil"
                  /\ authn.res.reason = authn.vres.reason
                  /\ authn.res.authenticated = authn.vres.isValid)
    /\ [][ (Returns /\ authn.pc = "awaitKey" /\ Resolves
              /\ Fold(Resolved.Alg) = Fold(Presented.alg.val)
              /\ Resolved.Pem \notin {"pemA", "pemB"}) =>
            /\ authn'.vres = ValidateResult(FALSE, "", "jwt.Parse error")
            /\ authn'.res = AuthResult(FALSE, "", "failed to validate jwt")
            /\ ~authn'.verified ]_vars

\* A token was presented against a key whose PEM holds no RSA public key, and
\* Authenticate returned an error without a reason.
C11_Witness ==
    /\ authn.pc = "done" /\ authn.awaited /\ authn.text = << "T0" >>
    /\ authn.res = AuthResult(FALSE, "", "failed to validate jwt")
    /\ "k1" \in DOMAIN keys /\ keys["k1"].Pem = "pemEC"

\* ---- C12
\* C12: the user's handler of an authenticated or service endpoint runs only
\* when Authenticate returned true and no error, IsServiceRequest returned
\* true (service endpoints) and Authorize returned true and no error, and it
\* runs then; otherwise the response is 500 "internal server error" on an
\* error of Authenticate or Authorize, 401 with the reason of Authenticate
\* when not authenticated, 403 when not a service request or not authorized;
\* the provider is not asked about a request that is not authenticated.
C12_EndpointGate ==
    svc.ep.pc = "done" =>
        LET e == svc.ep
            a == authn.res
            passed == a.err = "nil" /\ a.authenticated
            verified == e.kind = "service" => (e.verifyCalled /\ e.isVerified)
            allowed == e.authorizeCalled /\ e.authz.ok /\ ~e.authz.err
        IN /\ e.handlerCalled <=> (passed /\ verified /\ allowed)
           /\ a.err # "nil" =>
                 e.status = 500 /\ e.message = "internal server error" /\ e.reason = ""
           /\ (a.err = "nil" /\ ~a.authenticated) =>
                 e.status = 401 /\ e.reason = a.reason
           /\ ~passed => ~e.verifyCalled /\ ~e.authorizeCalled
           /\ (passed /\ ~verified) => e.status = 403 /\ ~e.authorizeCalled
           /\ (passed /\ verified) => e.authorizeCalled
           /\ (passed /\ verified /\ e.authz.err) =>
                 e.status = 500 /\ e.message = "internal server error"
           /\ (passed /\ verified /\ ~e.authz.err /\ ~e.authz.ok) => e.status = 403
           /\ e.kind = "authenticated" => ~e.verifyCalled

\* A request to a service endpoint got through to the user's handler.
C12_Witness ==
    /\ svc.ep.pc = "done" /\ svc.ep.kind = "service"
    /\ svc.ep.handlerCalled /\ svc.ep.status = 200
    /\ authn.res.authenticated

\* ---- C13
\* C13: once the context is cancelled, a started scheduler reaches stopped:
\* its goroutine has run shutdown, the key ticker is stopped and the error
\* channel is closed.
C13_CancelStopsScheduler ==
    (ctxDone /\ started) ~>
        (loopPc = "stopped" /\ refreshKeysTicker # "running" /\ errorChan.closed)

\* ---- C14
\* A step in which a RefreshAccessToken call returns an error.
FailedRefreshReturn ==
    /\ Cardinality(inFlight') < Cardinality(inFlight)
    /\ lastReturn' = "err"

InOrder(r, n) == r.calls = SelectSeq(SubSeq(Callbacks, 1, n), LAMBDA name : name \in r.state)

\* C15: Run invokes Starting, Running, Terminating in this order, each at most
\* once; Terminating is invoked once, after a terminate signal was received,
\* the context was cancelled or the router reported an error; the context is
\* then cancelled, and Run has returned only if teardown completed or a
\* second terminate signal was received.
C15_RunLifecycle ==
    LET r == svc.run
    IN /\ r.pc = "idle" => InOrder(r, 0)
       /\ r.pc \in {"notify", "running"} => InOrder(r, 1)
       /\ r.pc = "select" => InOrder(r, 2)
       /\ r.pc \in {"select2", "returned"} =>
             /\ InOrder(r, 3)
             /\ ctxDone
             /\ \/ r.cause = "signal" /\ r.received >= 1 /\ r.termErr \in {"nil", "none"}
                \/ r.cause = "context" /\ r.termErr \in {"nil", "none"}
                \/ r.cause = "router" /\ r.router = "received" /\ r.termErr \in {"err", "none"}
       /\ r.pc = "returned" => (r.teardown = "done" \/ r.received >= 2)

\* ---- C16
\* C16: the error channel is closed once, by the shutdown the goroutine runs
\* when the context is done; a closed channel is never closed again, and no
\* send on it begins or is pending.
C16_ClosedOnce ==
    /\ [](/\ errorChan.closes <= 1
          /\ errorChan.closed <=> errorChan.closes = 1
          /\ errorChan.closed => (ctxDone /\ loopPc = "stopped" /\ ~errorChan.sending))
    /\ [][ /\ errorChan.closed => errorChan' = errorChan
           /\ errorChan'.closes # errorChan.closes =>
                 (ctxDone /\ loopPc = "loop" /\ loopPc' = "stopped")
           /\ (errorChan'.sending /\ ~errorChan.sending) => ~errorChan'.closed
         ]_vars

\* The goroutine has stopped with the channel closed, after an error of an
\* earlier refresh had gone through the channel.
C16_Witness ==
    /\ loopPc = "stopped" /\ errorChan.closed /\ errorChan.closes = 1
    /\ consumer.logged

\* ---- C17
\* C17: a call of shutdown returns nil and leaves the ticker released and
\* the channel closed without closing it twice; a call that finds the channel
\* closed closes nothing, one that finds no ticker stops none, and a second
\* call changes neither.
C17_ShutdownIdempotent ==
    [][ svc'.shutdowns.calls = svc.shutdowns.calls + 1 =>
          /\ svc'.shutdowns.ret = "nil"
          /\ errorChan'.closed /\ errorChan'.closes = 1
          /\ refreshKeysTicker' = "nil"
          /\ errorChan.closed => errorChan' = errorChan
          /\ refreshKeysTicker = "nil" => refreshKeysTicker' = refreshKeysTicker
          /\ (loopPc = "stopped" \/ svc.shutdowns.calls >= 1) =>
                (errorChan' = errorChan /\ refreshKeysTicker' = refreshKeysTicker)
      ]_vars

\* shutdown has been called again after the goroutine had run it.
C17_Witness ==
    /\ loopPc = "stopped"
    /\ svc.shutdowns.calls >= 1 /\ svc.shutdowns.ret = "nil"
    /\ errorChan.closed /\ refreshKeysTicker = "nil"

\* ---- C18
\* C18: a call of awaitKey that began with the refresh due returns the key
\* when the key is in the cache at the time it returns, which is within the
\* window; it returns not-found only when the key is not there.
C18_AwaitKeyFindsInstalledKey ==
    [][ (authn.due /\ authn.pc \in {"awaitKey", "isRefreshing", "select"}
            /\ authn'.pc = "done") =>
          (authn.pc = "awaitKey" <=> keyWithIDOk(Decode(authn.text).kid.val)) ]_vars

\* ---- C19
\* C19: when awaitKey has missed the key and finds that the next refresh is
\* not yet due, it returns not-found in that step, without going to the
\* select, and validateJWT reports that the key was not found.
C19_NotDueReturnsAtOnce ==
    [][ (authn.pc = "isRefreshing" /\ ~(now > nextKeyRefresh) /\ authn' # authn) =>
          /\ authn'.pc = "done" /\ authn'.at = now
          /\ ~authn'.verified
          /\ authn'.vres = ValidateResult(FALSE, "key not found", "nil")
          /\ authn'.res = AuthResult(FALSE, "key not found", "nil") ]_vars

\* A token whose kid the refreshed cache does not hold was refused in the
\* second it was presented, before any tick of awaitKey's ticker.
C19_Witness ==
    /\ authn.pc = "done" /\ authn.awaited /\ authn.at = 0
    /\ authn.res = AuthResult(FALSE, "key not found", "nil")
    /\ keys # << >> /\ Decode(authn.text).kid.val \notin DOMAIN keys
    /\ ~(now > nextKeyRefresh)

\* ---- C20
\* A call of awaitKey is under way.
InAwaitKey == authn.pc \in {"awaitKey", "isRefreshing", "select"}

\* C20: a call of awaitKey is never past its deadline of maxWaitDuration
\* seconds; it looks the key up when it is called and then only after a tick
\* of its ticker, one lookup for each second; and a call whose deadline the
\* clock reaches returns, whatever the refreshes do.
C20_AwaitKeyTerminates ==
    /\ [](InAwaitKey => (authn.ticked <= now /\ now <= authn.timeout
                          /\ authn.timeout - maxWaitDuration <= authn.ticked))
    /\ [][ (authn'.pc = "awaitKey" /\ authn.pc # "awaitKey") =>
              \/ authn.pc = "idle" /\ authn'.ticked = now
              \/ authn.pc = "select" /\ now > authn.ticked /\ authn'.ticked = now ]_vars
    /\ ((authn.pc = "awaitKey" /\ authn.timeout <= MaxAuthTime) ~> authn.pc = "done")

\* awaitKey has waited to its deadline, one tick after the other, and is
\* about to return on the timeout.
C20_Witness ==
    /\ authn.pc = "select" /\ now = authn.timeout /\ authn.ticked = now
    /\ ~keyWithIDOk(Decode(authn.text).kid.val)

\* ---- C21
\* A step in which the scheduler's call of refreshKeys returns.
KeysReturn == loopPc \in {"initCall", "keyCall"} /\ loopPc' # loopPc

\* The responses refreshKeys accepts.
GoodKeyResponses(t) == { resp \in ProviderKeyResponses(t) : ~refreshKeysFails(resp) }

\* C21: a refreshKeys of the scheduler that fails leaves the key map and the
\* next-refresh time as they were and its error is sent on the error channel;
\* one that does not fail installs a batch all of whose keys pass Validate;
\* so no key that fails Validate is ever in the map keyWithID reads.
C21_FailedKeyRefreshKeepsKeys ==
    /\ [](\A kid \in DOMAIN keys : Validate(keys[kid]))
    /\ [][ KeysReturn =>
             IF loopPc' = "send"
             THEN /\ keys' = keys /\ nextKeyRefresh' = nextKeyRefresh
                  /\ errorChan'.sending /\ ~errorChan.sending
             ELSE /\ loopPc' = "loop" /\ errorChan' = errorChan
                  /\ \E resp \in GoodKeyResponses(now) :
                        keys' = KeyMap(resp.keys) /\ nextKeyRefresh' = resp.next ]_vars

\* A timer-driven refresh has failed with keys in the cache, and its error
\* waits on the channel.
C21_Witness ==
    /\ loopPc = "send" /\ errorChan.sending
    /\ keyCalls[2] >= 1
    /\ keys # << >>

\* C22: whenever a.mux is not held exclusively (so in every state a reader
\* that holds the lock can see) the key map is exactly the key set of the one
\* response installed last, or the empty map New left, with no key of an
\* earlier generation, and the next-key-refresh time is the one that same
\* response carried; the response installed is one refreshKeys accepted.
C22_KeysAndTimestampOfOneResponse ==
    /\ mux.readers # {} => ~mux.writer
    /\ (~mux.writer \/ mux.readers # {}) =>
          /\ keys = KeyMap(kproc.installed.keys)
          /\ nextKeyRefresh = kproc.installed.next
    /\ \/ kproc.installed = NewKeys
       \/ \E t \in 0..now : kproc.installed \in GoodKeyResponses(t)

\* A reader holds the lock on the keys of one generation while refreshKeys
\* waits in Lock with the next one.
C22_Witness ==
    /\ mux.readers # {} /\ mux.pending
    /\ kproc.installed # NewKeys
    /\ keys # << >>
    /\ KeyMap(kproc.refresh.resp.keys) # keys
    /\ kproc.refresh.resp.next # nextKeyRefresh

\* C23: every key in the cache has a non-empty kid, a non-zero iat, a non-zero
\* exp, a non-empty alg and a non-empty pem, and is the value of the map entry
\* of its own kid.
C23_CachedKeysValidUnderOwnKid ==
    \A kid \in DOMAIN keys :
        /\ keys[kid].Kid # "" /\ keys[kid].Iat # 0 /\ keys[kid].Exp # 0
        /\ keys[kid].Alg # "" /\ keys[kid].Pem # ""
        /\ keys[kid].Kid = kid

\* The cache after a timer-driven refresh whose batch named one kid twice.
C23_Witness ==
    /\ keyCalls[2] >= 1
    /\ DOMAIN keys = {"k2"}
    /\ keys["k2"] = NewKey("k2", 1, 9, "RS256", "pemA")

\* C24: in its loop the scheduler calls RefreshKeys only on a key tick taken
\* when the time is after the next-key-refresh time, and RefreshAccessToken
\* only on an access-token tick taken when the next-access-token-refresh time
\* is set and before the time; a tick taken otherwise starts no provider call
\* and leaves both caches as they are.
SchedulerTick == loopPc = "loop" /\ tick' # tick /\ now' = now
C24_ProviderCalledOnlyWhenDue ==
    [][ /\ keyCalls'[2] # keyCalls[2] =>
              /\ SchedulerTick /\ tick.key /\ ~tick'.key
              /\ now > nextKeyRefresh
        /\ Scheduler \in inFlight' \ inFlight =>
              /\ SchedulerTick /\ tick.token /\ ~tick'.token
              /\ nextAccessTokenRefresh # NilTime /\ nextAccessTokenRefresh < now
        /\ (SchedulerTick /\ tick.key /\ ~tick'.key /\ ~(now > nextKeyRefresh)) =>
              UNCHANGED << loopPc, keyVars, tokVars >>
        /\ (SchedulerTick /\ tick.token /\ ~tick'.token
              /\ ~(nextAccessTokenRefresh # NilTime /\ nextAccessTokenRefresh < now)) =>
              UNCHANGED << loopPc, keyVars, tokVars >> ]_vars

\* The scheduler is inside RefreshAccessToken, after a timer-driven key
\* refresh, with keys in the cache that are not due.
C24_Witness ==
    /\ loopPc = "tokenCall" /\ Scheduler \in inFlight
    /\ keyCalls[2] >= 1
    /\ keys # << >> /\ nextKeyRefresh >= now

\* C25: every refresh that fails in the scheduler is reported on the error
\* stream: a RefreshKeys of the goroutine (the initial one or a timer-driven
\* one) that installs no accepted response, and a RefreshAccessToken of the
\* goroutine that returns an error, is followed at once by the send of the
\* error on a.errorChan.
TokenReturn == loopPc = "tokenCall" /\ loopPc' # loopPc
ErrorSent == loopPc' = "send" /\ errorChan'.sending /\ ~errorChan.sending
C25_SchedulerFailuresReported ==
    [][ /\ KeysReturn =>
              \/ ErrorSent
              \/ \E resp \in GoodKeyResponses(now) :
                    keys' = KeyMap(resp.keys) /\ nextKeyRefresh' = resp.next
        /\ (TokenReturn /\ lastReturn' = "err") => ErrorSent ]_vars

\* C26: teardown returns no later than its timeout in every run, also when
\* one component has failed at once and another is still at work; and when
\* it has returned before the timeout, it has returned the error of the
\* component that reported first, or nil when none reported one.
C26_TeardownWithinTimeout ==
    /\ svc.td.elapsed > teardownTimeout => svc.td.pc \in {"none", "returned"}
    /\ (svc.td.pc = "returned" /\ svc.td.elapsed < teardownTimeout) =>
          svc.td.ret = IF svc.td.reported = << >> THEN "nil" ELSE Head(svc.td.reported)

\* C27: a key refresh that fails leaves the next-key-refresh time in the
\* past, and that time changes only when a refresh succeeds; so every key tick
\* the scheduler takes from then on starts a RefreshKeys, until one succeeds,
\* and after a success a key tick starts one only once the time that
\* refresh returned has passed.
KeyTick == loopPc = "loop" /\ tick.key /\ ~tick'.key /\ now' = now
KeyAttempt == loopPc' = "keyCall" /\ keyCalls'[2] = keyCalls[2] + 1
C27_RetryUntilSuccess ==
    [][ /\ (KeysReturn /\ loopPc' = "send") => now' > nextKeyRefresh'
        /\ nextKeyRefresh' # nextKeyRefresh =>
              /\ KeysReturn /\ loopPc' = "loop"
              /\ \E resp \in GoodKeyResponses(now) : nextKeyRefresh' = resp.next
        /\ now' >= now
        /\ KeyTick => (KeyAttempt <=> now > nextKeyRefresh)
        /\ (KeyTick /\ ~KeyAttempt) => UNCHANGED << loopPc, keyVars >> ]_vars

\* The second timer-driven attempt is under way, an error of an earlier one
\* has been received, and no refresh has succeeded so far.
C27_Witness ==
    /\ loopPc = "keyCall" /\ keyCalls = << 1, 2 >>
    /\ consumer.logged
    /\ nextKeyRefresh = ZeroTime

\* C28: while no key refresh has succeeded yet (the next-key-refresh time is
\* still the zero time) awaitKey takes a miss for a refresh in progress and
\* goes to wait; a call that missed the key in that situation does not return
\* not-found at once when the initial refresh has meanwhile installed the
\* key, but returns the key; and a lookup that finds the key ends the call.
OnlyInitialRefresh == keyCalls = << 1, 0 >>
C28_WaitsForInitialRefresh ==
    [][ /\ (authn.pc = "isRefreshing" /\ nextKeyRefresh = ZeroTime /\ authn' # authn) =>
              authn'.pc = "select"
        /\ (authn.pc = "isRefreshing" /\ OnlyInitialRefresh /\ authn' # authn
              /\ keyWithIDOk(Decode(authn.text).kid.val)) =>
              authn'.pc # "done"
        /\ (authn.pc = "awaitKey" /\ authn' # authn
              /\ keyWithIDOk(Decode(authn.text).kid.val)) =>
              authn'.pc = "done" ]_vars

\* C29: an awaitKey call that waits in its select, or has returned, holds no
\* read lock; refreshKeys holds no lock and asks for none while it is in the
\* provider call; and a refreshKeys that asks for the exclusive lock gets it
\* and completes, whatever the awaitKey and keyWithID callers do.
C29_ReadersNeverBlockRefresh ==
    /\ [](\A r \in Readers :
            kproc.reader[r].pc \in {"idle", "select", "keyWithID", "line58"} =>
               r \notin mux.readers)
    /\ [](kproc.refresh.pc \in {"idle", "provider", "Lock"} =>
            ~mux.writer /\ ~mux.pending)
    /\ (kproc.refresh.pc = "Lock" ~> kproc.refresh.pc = "idle")

\* refreshKeys waits in Lock for a reader inside keyWithID, while another
\* awaitKey call waits in its select.
C29_Witness ==
    /\ kproc.refresh.pc = "locking" /\ mux.pending
    /\ \E r \in Readers : kproc.reader[r].pc = "select"
    /\ \E r \in Readers : kproc.reader[r].pc = "line79" /\ r \in mux.readers

\* C30: once the goroutine of Start has returned after the cancellation, the
\* scheduler stays stopped: a further call of Start launches no goroutine,
\* starts no ticker, causes no call of the provider, and returns the one error
\* channel, which is closed and stays closed.
C30_StoppedStaysStopped ==
    /\ [](loopPc = "stopped" => errorChan.closed /\ ctxDone)
    /\ [][ loopPc = "stopped" =>
             /\ loopPc' = "stopped" /\ loops' = loops
             /\ refreshKeysTicker' = refreshKeysTicker
             /\ keyCalls' = keyCalls /\ refreshCalls' = refreshCalls /\ inFlight' = inFlight
             /\ errorChan' = errorChan
             /\ \A s \in Starters : startRet'[s] # startRet[s] => startRet'[s] = errorChan.id
             /\ consumer'.chan # consumer.chan => consumer'.chan = errorChan.id ]_vars

\* The goroutine has returned; the service's loop has received from the
\* closed channel and is about to call Start again, and every other caller
\* of Start holds that channel.
C30_Witness ==
    /\ loopPc = "stopped" /\ errorChan.closed
    /\ consumer.pc = "top" /\ consumer.chan = errorChan.id
    /\ \A s \in Starters : startRet[s] = errorChan.id

====
